---- MODULE Spec2Model ----
(***************************************************************************)
(* A model of the constant folder (src/src/fold.rs) and of the lexer       *)
(* (src/src/lex/mod.rs) of the rcc C compiler.                             *)
(*                                                                         *)
(* 64-bit machine integers are kept at their full width.  TLC's own        *)
(* integers are too narrow for them, so an i64 / u64 value is a WORD: the  *)
(* little-endian sequence of its WordBytes bytes (two's complement for     *)
(* i64).  The operators of the first section are the Rust primitive        *)
(* integer operations on words (wrapping_*, overflowing_*, shifts).        *)
(***************************************************************************)
EXTENDS Integers, Sequences, FiniteSets, TLC

\* size in bytes of i64 / u64, the payload of Literal::Int / UnsignedInt
WordBytes == 8
\* size in bytes of the integers wide enough to hold every exact sum,
\* difference and product of two words (used only to state properties)
WideBytes == 2 * WordBytes + 1

(***************************************************************************)
(* Byte-sequence arithmetic (little endian, modulo 256^Len).               *)
(***************************************************************************)
Pow2(k) == 2 ^ k

ZeroW(n) == [i \in 1..n |-> 0]

\* the n-byte word of a natural number v < 2^31
FromNat(v, n) == [i \in 1..n |-> IF i > 4 THEN 0 ELSE (v \div (256 ^ (i - 1))) % 256]

NotW(a) == [i \in 1..Len(a) |-> 255 - a[i]]

RECURSIVE AddFrom(_, _, _, _)
AddFrom(a, b, i, c) ==
  IF i > Len(a) THEN <<>>
  ELSE LET s == a[i] + b[i] + c
       IN  <<s % 256>> \o AddFrom(a, b, i + 1, s \div 256)

\* a + b modulo 256^Len(a)
AddW(a, b) == AddFrom(a, b, 1, 0)

\* -a modulo 256^Len(a)
NegW(a) == AddFrom(NotW(a), ZeroW(Len(a)), 1, 1)

\* a - b modulo 256^Len(a)
SubW(a, b) == AddFrom(a, NotW(b), 1, 1)

RECURSIVE ColSum(_, _, _, _)
ColSum(a, b, k, i) ==
  IF i > k THEN 0 ELSE a[i] * b[k + 1 - i] + ColSum(a, b, k, i + 1)

RECURSIVE MulFrom(_, _, _, _)
MulFrom(a, b, k, c) ==
  IF k > Len(a) THEN <<>>
  ELSE LET s == ColSum(a, b, k, 1) + c
       IN  <<s % 256>> \o MulFrom(a, b, k + 1, s \div 256)

\* a * b modulo 256^Len(a)
MulW(a, b) == MulFrom(a, b, 1, 0)

IsNegW(a) == a[Len(a)] >= 128

IsZeroW(a) == \A i \in 1..Len(a) : a[i] = 0

\* sign extension / zero extension / truncation to n bytes
SignExt(a, n) ==
  [i \in 1..n |-> IF i <= Len(a) THEN a[i] ELSE IF IsNegW(a) THEN 255 ELSE 0]

ZeroExt(a, n) == [i \in 1..n |-> IF i <= Len(a) THEN a[i] ELSE 0]

\* the n-byte two's complement word of an integer v, |v| < 2^31
FromInt(v, n) == IF v >= 0 THEN FromNat(v, n) ELSE NegW(FromNat(0 - v, n))

RECURSIVE ULessFrom(_, _, _)
ULessFrom(a, b, i) ==
  IF i = 0 THEN FALSE
  ELSE IF a[i] # b[i] THEN a[i] < b[i]
  ELSE ULessFrom(a, b, i - 1)

\* unsigned and signed comparison of two words of the same length
ULess(a, b) == ULessFrom(a, b, Len(a))
SLess(a, b) == IF IsNegW(a) # IsNegW(b) THEN IsNegW(a) ELSE ULess(a, b)

ByteAt(a, i) == IF i >= 1 /\ i <= Len(a) THEN a[i] ELSE 0

\* logical shift left / right by s bits, 0 <= s < 8 * Len(a)
ShlW(a, s) ==
  LET q == s \div 8
      r == s % 8
  IN  [i \in 1..Len(a) |->
         ((ByteAt(a, i - q) * Pow2(r)) % 256) + ((ByteAt(a, i - q - 1) * Pow2(r)) \div 256)]

ShrW(a, s, fill) ==
  LET q == s \div 8
      r == s % 8
      at(i) == IF i > Len(a) THEN fill ELSE a[i]
  IN  [i \in 1..Len(a) |->
         (at(i + q) \div Pow2(r)) + ((at(i + q + 1) * Pow2(8 - r)) % 256)]

RECURSIVE BitOp(_, _, _, _)
BitOp(op, x, y, k) ==
  IF k = 0 THEN 0
  ELSE LET bx == x % 2
           by == y % 2
           b  == CASE op = "and" -> bx * by
                   [] op = "or"  -> IF bx + by > 0 THEN 1 ELSE 0
                   [] op = "xor" -> (bx + by) % 2
       IN  b + 2 * BitOp(op, x \div 2, y \div 2, k - 1)

\* bitwise and / or / xor of two words
BitW(op, a, b) == [i \in 1..Len(a) |-> BitOp(op, a[i], b[i], 8)]

RECURSIVE MulByteFrom(_, _, _, _)
MulByteFrom(a, d, i, c) ==
  IF i > Len(a) THEN <<>>
  ELSE LET s == a[i] * d + c
       IN  <<s % 256>> \o MulByteFrom(a, d, i + 1, s \div 256)

\* a * d modulo 256^Len(a), for one byte d
MulByte(a, d) == MulByteFrom(a, d, 1, 0)

\* the largest d in 0..255 with b * d <= r, given r < 256 * b: one digit of
\* schoolbook long division, found bit by bit from the top (step = 128, 64, ..)
RECURSIVE DivDigitFrom(_, _, _, _)
DivDigitFrom(r, b, d, step) ==
  IF step = 0 THEN d
  ELSE IF ~ULess(r, MulByte(b, d + step))
  THEN DivDigitFrom(r, b, d + step, step \div 2)
  ELSE DivDigitFrom(r, b, d, step \div 2)

DivDigit(r, b) == DivDigitFrom(r, b, 0, 128)

\* long division of unsigned words, b # 0: the quotient bytes k..Len(a) and
\* the remainder left once the bytes of a from the top down to k are brought
\* in, one quotient byte per step; r and b carry two spare bytes
RECURSIVE DivFrom(_, _, _)
DivFrom(a, b, k) ==
  IF k > Len(a) THEN [q |-> <<>>, r |-> ZeroW(Len(b))]
  ELSE LET prev == DivFrom(a, b, k + 1)
       IN  IF Len(prev.q) # Len(a) - k THEN prev
           ELSE LET r1 == <<a[k]>> \o SubSeq(prev.r, 1, Len(b) - 1)
                    d  == DivDigit(r1, b)
                IN  [q |-> <<d>> \o prev.q, r |-> SubW(r1, MulByte(b, d))]

UDivMod(a, b) ==
  LET n   == Len(a)
      res == DivFrom(a, ZeroExt(b, n + 2), 1)
  IN  [q |-> res.q, r |-> SubSeq(res.r, 1, n)]

AbsW(a) == IF IsNegW(a) THEN NegW(a) ELSE a

(***************************************************************************)
(* Rust's primitive operations on i64 / u64, on words.                     *)
(***************************************************************************)
W(v) == FromInt(v, WordBytes)

I64_MIN == [i \in 1..WordBytes |-> IF i = WordBytes THEN 128 ELSE 0]
I64_MAX == [i \in 1..WordBytes |-> IF i = WordBytes THEN 127 ELSE 255]

\* i64::overflowing_add / overflowing_sub: the wrapped value and whether the
\* exact result left the range (the operands' signs decide it)
overflowing_add(a, b) ==
  LET v == AddW(a, b)
  IN  [value |-> v, overflowed |-> IsNegW(a) = IsNegW(b) /\ IsNegW(v) # IsNegW(a)]

overflowing_sub(a, b) ==
  LET v == SubW(a, b)
  IN  [value |-> v, overflowed |-> IsNegW(a) # IsNegW(b) /\ IsNegW(v) # IsNegW(a)]

\* i64::overflowing_mul: the low word of the product, and whether the exact
\* double-width product differs from the sign extension of that low word
overflowing_mul(a, b) ==
  LET n    == 2 * WordBytes
      wide == MulW(SignExt(a, n), SignExt(b, n))
      v    == SubSeq(wide, 1, WordBytes)
  IN  [value |-> v, overflowed |-> SignExt(v, n) # wide]

\* i64 division truncates toward zero; the remainder has the dividend's sign
SDivTrunc(a, b) ==
  LET q == UDivMod(AbsW(a), AbsW(b)).q
  IN  IF IsNegW(a) # IsNegW(b) THEN NegW(q) ELSE q

SRemTrunc(a, b) ==
  LET r == UDivMod(AbsW(a), AbsW(b)).r
  IN  IF IsNegW(a) THEN NegW(r) ELSE r

\* i64::overflowing_div / overflowing_rem, b # 0: only MIN / -1 overflows
overflowing_div(a, b) ==
  IF a = I64_MIN /\ b = W(-1)
  THEN [value |-> a, overflowed |-> TRUE]
  ELSE [value |-> SDivTrunc(a, b), overflowed |-> FALSE]

overflowing_rem(a, b) ==
  IF a = I64_MIN /\ b = W(-1)
  THEN [value |-> W(0), overflowed |-> TRUE]
  ELSE [value |-> SRemTrunc(a, b), overflowed |-> FALSE]

overflowing_neg(a) == [value |-> NegW(a), overflowed |-> a = I64_MIN]

\* `shift as u32`: the low four bytes of a u64.  Only two facts about it are
\* used: whether it is >= 64 and its value modulo 64.
U32AtLeast64(shift) == shift[1] >= 64 \/ shift[2] # 0 \/ shift[3] # 0 \/ shift[4] # 0
U32Mod64(shift) == shift[1] % 64

\* i64::overflowing_shl(rhs): self << (rhs % 64), and whether rhs >= 64
overflowing_shl(a, shift) ==
  [value |-> ShlW(a, U32Mod64(shift)), overflowed |-> U32AtLeast64(shift)]

\* u64::wrapping_shl, u64::wrapping_shr (logical), i64::wrapping_shr (arithmetic)
wrapping_shl(a, shift) == ShlW(a, U32Mod64(shift))
wrapping_shr_u64(a, shift) == ShrW(a, U32Mod64(shift), 0)
wrapping_shr_i64(a, shift) == ShrW(a, U32Mod64(shift), IF IsNegW(a) THEN 255 ELSE 0)

(***************************************************************************)
(* f64.  A Float literal is an exact rational <<num, den>> in lowest terms *)
(* with den > 0; the inputs are bounded (FloatVals) so that every          *)
(* operation applied to them is exact in IEEE-754 double arithmetic.       *)
(* -0.0 and 0.0 are one value (they compare equal in Rust).                *)
(***************************************************************************)
RECURSIVE Gcd(_, _)
Gcd(a, b) == IF b = 0 THEN a ELSE Gcd(b, a % b)

AbsI(x) == IF x < 0 THEN 0 - x ELSE x

FNorm(n, d) ==
  LET g  == Gcd(AbsI(n), AbsI(d))
      sg == IF d < 0 THEN 0 - 1 ELSE 1
  IN  <<(sg * n) \div g, (sg * d) \div g>>

FAdd(x, y) == FNorm(x[1] * y[2] + y[1] * x[2], x[2] * y[2])
FSub(x, y) == FNorm(x[1] * y[2] - y[1] * x[2], x[2] * y[2])
FMul(x, y) == FNorm(x[1] * y[1], x[2] * y[2])
FDiv(x, y) == FNorm(x[1] * y[2], x[2] * y[1])
FNeg(x) == <<0 - x[1], x[2]>>
FLess(x, y) == x[1] * y[2] < y[1] * x[2]

\* `f as i64` / `f as u64`: truncation toward zero (saturating at the ends
\* of the target range, which only a negative value cast to u64 can leave)
FTrunc(x) == IF x[1] < 0 THEN 0 - ((0 - x[1]) \div x[2]) ELSE x[1] \div x[2]
FloatToI64(x) == W(FTrunc(x))
FloatToU64(x) == IF x[1] < 0 THEN W(0) ELSE W(FTrunc(x))

\* the integer of a word whose value fits TLC's integers
SmallOfWord(w) ==
  w[1] + 256 * w[2] + 65536 * w[3] + 16777216 * w[4]

\* `i as f64` / `u as f64`, for |value| < 2^31
I64ToFloat(w) == IF IsNegW(w) THEN <<0 - SmallOfWord(NegW(w)), 1>> ELSE <<SmallOfWord(w), 1>>
U64ToFloat(w) == <<SmallOfWord(w), 1>>

(***************************************************************************)
(* Types (crate::data::types::Type) and the target's sizes.                *)
(***************************************************************************)
CHAR_BIT == 8
CHAR_SIZE == 1
BOOL_SIZE == 1
SHORT_SIZE == 2
INT_SIZE == 4
LONG_SIZE == 8
FLOAT_SIZE == 4
DOUBLE_SIZE == 8
PTR_SIZE == 8

\* a type: its variant, the signedness flag of Char/Short/Int/Long, and the
\* enumerators <<name, value>> of an Enum
Ty(t, signed) == [t |-> t, signed |-> signed, members |-> <<>>]
EnumTy(members) == [t |-> "Enum", signed |-> FALSE, members |-> members]
NoType == Ty("None", FALSE)

is_signed(ty) ==
  \/ ty.t \in {"Bool", "Enum"}
  \/ ty.t \in {"Char", "Short", "Int", "Long"} /\ ty.signed

is_integral(ty) == ty.t \in {"Bool", "Char", "Short", "Int", "Long", "Enum"}

is_pointer(ty) == ty.t = "Pointer"

\* Type::sizeof: [ok, size] or [ok = FALSE, msg]
sizeof(ty) ==
  CASE ty.t = "Bool"    -> [ok |-> TRUE, size |-> BOOL_SIZE, msg |-> ""]
    [] ty.t = "Char"    -> [ok |-> TRUE, size |-> CHAR_SIZE, msg |-> ""]
    [] ty.t = "Short"   -> [ok |-> TRUE, size |-> SHORT_SIZE, msg |-> ""]
    [] ty.t = "Int"     -> [ok |-> TRUE, size |-> INT_SIZE, msg |-> ""]
    [] ty.t = "Long"    -> [ok |-> TRUE, size |-> LONG_SIZE, msg |-> ""]
    [] ty.t = "Float"   -> [ok |-> TRUE, size |-> FLOAT_SIZE, msg |-> ""]
    [] ty.t = "Double"  -> [ok |-> TRUE, size |-> DOUBLE_SIZE, msg |-> ""]
    [] ty.t = "Pointer" -> [ok |-> TRUE, size |-> PTR_SIZE, msg |-> ""]
    [] ty.t = "Enum"    ->
         LET n == (Len(ty.members) + CHAR_BIT - 1) \div CHAR_BIT
         IN  IF n <= 8 THEN [ok |-> TRUE, size |-> 8, msg |-> ""]
             ELSE IF n <= 16 THEN [ok |-> TRUE, size |-> 16, msg |-> ""]
             ELSE IF n <= 32 THEN [ok |-> TRUE, size |-> 32, msg |-> ""]
             ELSE IF n <= 64 THEN [ok |-> TRUE, size |-> 64, msg |-> ""]
             ELSE [ok |-> FALSE, size |-> 0, msg |-> "enum cannot be represented in SIZE_T bits"]
    [] ty.t = "Function" -> [ok |-> FALSE, size |-> 0, msg |-> "cannot take sizeof a function"]
    [] ty.t = "Void"     -> [ok |-> FALSE, size |-> 0, msg |-> "cannot take sizeof void"]
    [] OTHER             -> [ok |-> FALSE, size |-> 0, msg |-> "cannot take sizeof va_list"]

(***************************************************************************)
(* Literals, expressions and results.                                      *)
(*   Literal: tag in Int / UnsignedInt (val a word), Char (val <<byte>>),  *)
(*            Float (val <<num, den>>), Str (val the bytes).               *)
(*   ExprType: kind, the operand expressions args, and whichever of        *)
(*            lit (Literal), aux (the name of an Id, the Compare / Assign      *)
(*            token, the Member name, "left" / "right" of a Shift,         *)
(*            "inc" / "dec"), ty (the operand of Sizeof) the kind carries. *)
(***************************************************************************)
Lit(tag, val) == [tag |-> tag, val |-> val]
IntLit(w) == Lit("Int", w)
UnsignedInt(w) == Lit("UnsignedInt", w)
CharLit(c) == Lit("Char", <<c>>)
FloatLit(f) == Lit("Float", f)
StrLit(bytes) == Lit("Str", bytes)
NoLit == Lit("None", <<>>)

ET(kind, args, lit, aux, ty) ==
  [kind |-> kind, args |-> args, lit |-> lit, aux |-> aux, ty |-> ty]
Literal(lit) == ET("Literal", <<>>, lit, "", NoType)
Unary(kind, e) == ET(kind, <<e>>, NoLit, "", NoType)
Binary(kind, l, r) == ET(kind, <<l, r>>, NoLit, "", NoType)
Shift(l, r, is_left) == ET("Shift", <<l, r>>, NoLit, IF is_left THEN "left" ELSE "right", NoType)
Compare(l, r, token) == ET("Compare", <<l, r>>, NoLit, token, NoType)

Expr(expr, ctype, constexpr, lval, location) ==
  [expr |-> expr, ctype |-> ctype, constexpr |-> constexpr, lval |-> lval,
   location |-> location]

IsLiteral(e) == e.expr.kind = "Literal"

\* the diagnostics of the folder (SemanticError, or a message string)
ErrData(kind, flag, maximum, current, ctype, msg) ==
  [kind |-> kind, flag |-> flag, maximum |-> maximum, current |-> current,
   ctype |-> ctype, msg |-> msg]
ConstOverflow(is_positive) == ErrData("ConstOverflow", is_positive, 0, <<>>, NoType, "")
DivideByZero == ErrData("DivideByZero", FALSE, 0, <<>>, NoType, "")
NegativeShift(is_left) == ErrData("NegativeShift", is_left, 0, <<>>, NoType, "")
TooManyShiftBits(is_left, current, ctype, maximum) ==
  ErrData("TooManyShiftBits", is_left, maximum, current, ctype, "")
Generic(msg) == ErrData("Generic", FALSE, 0, <<>>, NoType, msg)
NoErr == [data |-> ErrData("None", FALSE, 0, <<>>, NoType, ""), location |-> 0]

\* a CompileResult: st = "ok" with the value v, st = "err" with the located
\* error err, or st = "panic" when the Rust code panics instead of returning
Ok(v) == [st |-> "ok", v |-> v, err |-> NoErr]
Err(data, location) == [st |-> "err", v |-> <<>>, err |-> [data |-> data, location |-> location]]
Panic(msg) == [st |-> "panic", v |-> <<>>, err |-> [data |-> Generic(msg), location |-> 0]]

\* Expr::is_zero
is_zero(e) ==
  /\ IsLiteral(e)
  /\ CASE e.expr.lit.tag \in {"Int", "UnsignedInt"} -> IsZeroW(e.expr.lit.val)
       [] e.expr.lit.tag = "Float" -> e.expr.lit.val[1] = 0
       [] e.expr.lit.tag = "Char"  -> e.expr.lit.val[1] = 0
       [] OTHER -> FALSE

\* a variant of non_negative_int that forgets the sign test of Int (i as u64)
non_negative_int_unguarded(token) ==
  CASE token.tag \in {"Int", "UnsignedInt"} -> [ok |-> TRUE, u |-> token.val]
    [] token.tag = "Char" -> [ok |-> TRUE, u |-> FromNat(token.val[1], WordBytes)]
    [] OTHER -> [ok |-> FALSE, u |-> <<>>]

\* Literal::non_negative_int: the u64 of an Int >= 0, an UnsignedInt or a Char
non_negative_int(token) ==
  CASE token.tag = "Int" /\ ~IsNegW(token.val) -> [ok |-> TRUE, u |-> token.val]
    [] token.tag = "UnsignedInt" -> [ok |-> TRUE, u |-> token.val]
    [] token.tag = "Char" -> [ok |-> TRUE, u |-> FromNat(token.val[1], WordBytes)]
    [] OTHER -> [ok |-> FALSE, u |-> <<>>]

(***************************************************************************)
(* The closures handed to literal_bin_op and map_literal.  A fold function *)
(* answers Some(literal), None (not foldable), an error, or panics.        *)
(***************************************************************************)
Some(lit) == [st |-> "some", lit |-> lit, err |-> NoErr.data]
None == [st |-> "none", lit |-> NoLit, err |-> NoErr.data]
FoldErr(data) == [st |-> "err", lit |-> NoLit, err |-> data]
FoldPanic == [st |-> "panic", lit |-> NoLit, err |-> NoErr.data]

overflowing(op, a, b) ==
  CASE op = "Add" -> overflowing_add(a, b)
    [] op = "Sub" -> overflowing_sub(a, b)
    [] op = "Mul" -> overflowing_mul(a, b)
    [] op = "Div" -> overflowing_div(a, b)
    [] op = "Mod" -> overflowing_rem(a, b)

wrapping(op, a, b) ==
  CASE op = "Add" -> AddW(a, b)
    [] op = "Sub" -> SubW(a, b)
    [] op = "Mul" -> MulW(a, b)
    [] op = "Div" -> UDivMod(a, b).q
    [] op = "Mod" -> UDivMod(a, b).r

simple(op, x, y) ==
  CASE op = "Add" -> FAdd(x, y)
    [] op = "Sub" -> FSub(x, y)
    [] op = "Mul" -> FMul(x, y)
    [] op = "Div" -> FDiv(x, y)

\* the is_positive flag of a ConstOverflow: "overflowing returns the wrapped
\* value, so if we had a negative value, it would be a positive overflow"
overflow_is_positive(value) == IsNegW(value)

\* fold_scalar_bin_op (Add, Sub, Mul, Div) and the closure of Mod, which has
\* no Float case.  Integer division by a zero literal panics in Rust.
fold_scalar_bin_op(op, a, b) ==
  IF a.tag = "Int" /\ b.tag = "Int"
  THEN IF op \in {"Div", "Mod"} /\ IsZeroW(b.val) THEN FoldPanic
       ELSE LET r == overflowing(op, a.val, b.val)
            IN  IF r.overflowed
                THEN FoldErr(ConstOverflow(overflow_is_positive(r.value)))
                ELSE Some(IntLit(r.value))
  ELSE IF a.tag = "UnsignedInt" /\ b.tag = "UnsignedInt"
  THEN IF op \in {"Div", "Mod"} /\ IsZeroW(b.val) THEN FoldPanic
       ELSE Some(UnsignedInt(wrapping(op, a.val, b.val)))
  ELSE IF a.tag = "Float" /\ b.tag = "Float" /\ op # "Mod"
  THEN Some(FloatLit(simple(op, a.val, b.val)))
  ELSE None

\* fold_int_bin_op!(^), (&), (|)
fold_int_bin_op(op, a, b) ==
  LET bop == CASE op = "Xor" -> "xor" [] op = "BitwiseAnd" -> "and" [] op = "BitwiseOr" -> "or"
  IN  IF a.tag = b.tag /\ a.tag \in {"Int", "UnsignedInt", "Char"}
      THEN Some(Lit(a.tag, BitW(bop, a.val, b.val)))
      ELSE None

\* the closures of LogicalAnd and LogicalOr
fold_logical(op, a, b) ==
  LET is(x, v) == x.tag = "Int" /\ x.val = W(v)
  IN  IF op = "LogicalAnd"
      THEN IF is(a, 1) /\ is(b, 1) THEN Some(IntLit(W(1)))
           ELSE IF is(a, 0) \/ is(b, 0) THEN Some(IntLit(W(0)))
           ELSE None
      ELSE IF is(a, 0) /\ is(b, 0) THEN Some(IntLit(W(0)))
           ELSE IF is(a, 1) \/ is(b, 1) THEN Some(IntLit(W(1)))
           ELSE None

fold_func(op, a, b) ==
  CASE op \in {"Add", "Sub", "Mul", "Div", "Mod"} -> fold_scalar_bin_op(op, a, b)
    [] op \in {"Xor", "BitwiseAnd", "BitwiseOr"} -> fold_int_bin_op(op, a, b)
    [] op \in {"LogicalAnd", "LogicalOr"} -> fold_logical(op, a, b)

\* the closures of Negate and BitwiseNot
literal_func(op, token) ==
  IF op = "Negate"
  THEN CASE token.tag = "Int" ->
              LET r == overflowing_neg(token.val)
              IN  IF r.overflowed
                  THEN FoldErr(ConstOverflow(overflow_is_positive(r.value)))
                  ELSE Some(IntLit(r.value))
         [] token.tag = "UnsignedInt" -> Some(UnsignedInt(NegW(token.val)))
         [] token.tag = "Char" -> Some(Lit("Char", NegW(token.val)))
         [] token.tag = "Float" -> Some(FloatLit(FNeg(token.val)))
         [] OTHER -> Some(token)
  ELSE CASE token.tag \in {"Int", "UnsignedInt", "Char"} -> Some(Lit(token.tag, NotW(token.val)))
         [] OTHER -> Some(token)

\* the comparison `a $op b` of fold_compare_op!, as 0 or 1
CompareLit(token, a, b) ==
  LET lt(x, y) == CASE a.tag = "Int" -> SLess(x, y)
                    [] a.tag = "Float" -> FLess(x, y)
                    [] OTHER -> ULess(x, y)
      holds == CASE token = "Less" -> lt(a.val, b.val)
                 [] token = "LessEqual" -> ~lt(b.val, a.val)
                 [] token = "Greater" -> lt(b.val, a.val)
                 [] token = "GreaterEqual" -> ~lt(a.val, b.val)
                 [] token = "EqualEqual" -> a.val = b.val
                 [] token = "NotEqual" -> a.val # b.val
  IN  IntLit(IF holds THEN W(1) ELSE W(0))

\* const_cast: the source-kind x target-kind table, first match wins
const_cast(token, ctype) ==
  LET float == ctype.t \in {"Double", "Float"}
      sint  == is_integral(ctype) /\ is_signed(ctype)
      uint  == is_integral(ctype)
      bool(nonzero) == Some(IntLit(IF nonzero THEN W(1) ELSE W(0)))
  IN  IF token.tag = "Int" /\ ctype.t = "Bool" THEN bool(~IsZeroW(token.val))
      ELSE IF token.tag = "Int" /\ float THEN Some(FloatLit(I64ToFloat(token.val)))
      ELSE IF token.tag = "Int" /\ sint THEN Some(IntLit(token.val))
      ELSE IF token.tag = "Int" /\ uint THEN Some(UnsignedInt(token.val))
      ELSE IF token.tag = "UnsignedInt" /\ ctype.t = "Bool" THEN bool(~IsZeroW(token.val))
      ELSE IF token.tag = "UnsignedInt" /\ float THEN Some(FloatLit(U64ToFloat(token.val)))
      ELSE IF token.tag = "UnsignedInt" /\ sint THEN Some(IntLit(token.val))
      ELSE IF token.tag = "UnsignedInt" /\ uint THEN Some(UnsignedInt(token.val))
      ELSE IF token.tag = "Float" /\ ctype.t = "Bool" THEN bool(token.val[1] # 0)
      ELSE IF token.tag = "Float" /\ float THEN Some(FloatLit(token.val))
      ELSE IF token.tag = "Float" /\ sint THEN Some(IntLit(FloatToI64(token.val)))
      ELSE IF token.tag = "Float" /\ uint THEN Some(UnsignedInt(FloatToU64(token.val)))
      ELSE IF token.tag = "Int" /\ is_pointer(ctype) /\ ~IsNegW(token.val)
           THEN Some(UnsignedInt(token.val))
      ELSE IF token.tag = "UnsignedInt" /\ is_pointer(ctype) THEN Some(UnsignedInt(token.val))
      ELSE IF token.tag = "Char" /\ is_pointer(ctype)
           THEN Some(UnsignedInt(FromNat(token.val[1], WordBytes)))
      ELSE None

(***************************************************************************)
(* Expr::const_fold and its helpers.  The helpers return a CompileResult   *)
(* holding the folded ExprType; const_fold wraps it into an Expr.          *)
(***************************************************************************)
RECURSIVE const_fold(_)

\* folding a vector of expressions in order, stopping at the first failure:
\* the (left.const_fold()?, right.const_fold()?) of the helpers, the params
\* of a FuncCall, the operands of Comma / Ternary / Assign
RECURSIVE fold_all(_)
fold_more(h, t) == IF t.st # "ok" THEN t ELSE Ok(<<h.v>> \o t.v)
fold_rest(h, es) == IF h.st # "ok" THEN h ELSE fold_more(h, fold_all(Tail(es)))
fold_all(es) ==
  IF es = <<>> THEN Ok(<<>>) ELSE fold_rest(const_fold(Head(es)), es)

\* Expr::map_literal, on the already folded operand
map_literal(folded, location, op) ==
  IF IsLiteral(folded)
  THEN LET r == literal_func(op, folded.expr.lit)
       IN  IF r.st = "err" THEN Err(r.err, location) ELSE Ok(Literal(r.lit))
  ELSE Ok(Unary(op, folded))

\* Expr::literal_bin_op, after its two const_fold()? calls: left and right
\* are the folded operands
literal_bin_op(left, right, location, op) ==
  IF IsLiteral(left) /\ IsLiteral(right)
  THEN LET f == fold_func(op, left.expr.lit, right.expr.lit)
       IN  CASE f.st = "err" -> Err(f.err, location)
             [] f.st = "panic" -> Panic("attempt to divide by zero")
             [] f.st = "some" -> Ok(Literal(f.lit))
             [] OTHER -> Ok(Binary(op, left, right))
  ELSE Ok(Binary(op, left, right))

\* literal_bin_op called on operands that are still to be folded
fold_bin_op(operands, location, op) ==
  IF operands.st # "ok" THEN operands
  ELSE literal_bin_op(operands.v[1], operands.v[2], location, op)

\* a variant of the Div and Mod arms that evaluates without the zero test
fold_div_mod_unchecked(left, right, location, op) ==
  fold_bin_op(fold_all(<<left, right>>), location, op)

\* the Div and Mod arms: the right operand is folded and tested for zero
\* before literal_bin_op folds the left one (and the right one once more)
check_divisor(left, right, location, op) ==
  IF right.st # "ok" THEN right
  ELSE IF is_zero(right.v[1]) THEN Err(DivideByZero, location)
  ELSE fold_bin_op(fold_all(<<left, right.v[1]>>), location, op)
fold_div_mod(left, right, location, op) ==
  check_divisor(left, fold_all(<<right>>), location, op)

\* fold_compare_op!, after its two const_fold()? calls
fold_compare_op(left, right, token) ==
  IF /\ IsLiteral(left) /\ IsLiteral(right)
     /\ left.expr.lit.tag = right.expr.lit.tag
     /\ left.expr.lit.tag \in {"Int", "UnsignedInt", "Float", "Char"}
  THEN Ok(Literal(CompareLit(token, left.expr.lit, right.expr.lit)))
  ELSE Ok(Compare(left, right, token))

\* cast, after expr.const_fold()?
cast(expr, ctype) ==
  IF IsLiteral(expr)
  THEN LET c == const_cast(expr.expr.lit, ctype)
       IN  IF c.st = "some" THEN Ok(Literal(c.lit)) ELSE Ok(Unary("Cast", expr))
  ELSE Ok(Unary("Cast", expr))

\* shift_right, after its two const_fold()? calls
shift_right(left, right, ctype, location) ==
  IF IsLiteral(right)
  THEN LET shift == non_negative_int(right.expr.lit)
           size  == sizeof(ctype)
       IN  IF ~shift.ok THEN Err(NegativeShift(FALSE), location)
           ELSE IF ~size.ok THEN Err(Generic(size.msg), location)
           ELSE IF ~ULess(shift.u, FromNat(size.size, WordBytes))
           THEN Ok(Literal(IF is_signed(ctype) THEN IntLit(W(0)) ELSE UnsignedInt(W(0))))
           ELSE IF IsLiteral(left)
           THEN CASE left.expr.lit.tag = "Int" ->
                       Ok(Literal(IntLit(wrapping_shr_i64(left.expr.lit.val, shift.u))))
                  [] left.expr.lit.tag = "UnsignedInt" ->
                       Ok(Literal(UnsignedInt(wrapping_shr_u64(left.expr.lit.val, shift.u))))
                  [] OTHER -> Panic("only ints and unsigned ints can be right shifted")
           ELSE Ok(Shift(left, right, FALSE))
  ELSE Ok(Shift(left, right, FALSE))

\* shift_left, after its two const_fold()? calls.  Both Shift nodes it
\* rebuilds carry false, as in the source.
shift_left(left, right, ctype, location) ==
  IF IsLiteral(right)
  THEN LET shift     == non_negative_int(right.expr.lit)
           size      == sizeof(left.ctype)
           max_shift == CHAR_BIT * size.size
       IN  IF ~shift.ok THEN Err(NegativeShift(TRUE), location)
           ELSE IF is_signed(left.ctype) /\ ~size.ok THEN Err(Generic(size.msg), location)
           ELSE IF is_signed(left.ctype) /\ ~ULess(shift.u, FromNat(max_shift, WordBytes))
           THEN Err(TooManyShiftBits(TRUE, shift.u, ctype, max_shift), location)
           ELSE IF IsLiteral(left) /\ left.expr.lit.tag = "Int"
           THEN LET res == overflowing_shl(left.expr.lit.val, shift.u)
                IN  IF res.overflowed THEN Err(ConstOverflow(TRUE), location)
                    ELSE Ok(Literal(IntLit(res.value)))
           ELSE IF IsLiteral(left) /\ left.expr.lit.tag = "UnsignedInt"
           THEN Ok(Literal(UnsignedInt(wrapping_shl(left.expr.lit.val, shift.u))))
           ELSE Ok(Shift(left, right, FALSE))
  ELSE Ok(Shift(left, right, FALSE))

\* the enumerator called name of an Enum type, if any
RECURSIVE find_member(_, _)
find_member(members, name) ==
  IF members = <<>> THEN [found |-> FALSE, value |-> <<>>]
  ELSE IF Head(members)[1] = name THEN [found |-> TRUE, value |-> Head(members)[2]]
  ELSE find_member(Tail(members), name)

\* the arms of the match in const_fold that start by folding every operand
\* with const_fold()?; args are the folded operands
fold_operands(self, args) ==
  LET x        == self.expr
      kind     == x.kind
      location == self.location
      rebuilt  == Ok(ET(kind, args, x.lit, x.aux, x.ty))
  IN  CASE kind \in {"Negate", "BitwiseNot"} -> map_literal(args[1], location, kind)
        [] kind = "Comma" ->
             IF args[1].constexpr THEN Ok(args[2].expr) ELSE rebuilt
        [] kind = "Deref" ->
             IF args[1].expr = Literal(IntLit(W(0)))
             THEN Err(Generic("cannot dereference NULL pointer"), args[1].location)
             ELSE rebuilt
        [] kind \in {"Add", "Sub", "Mul", "Xor", "BitwiseAnd", "BitwiseOr",
                     "LogicalAnd", "LogicalOr"} ->
             literal_bin_op(args[1], args[2], location, kind)
        [] kind = "Shift" ->
             IF x.aux = "left" THEN shift_left(args[1], args[2], self.ctype, location)
             ELSE shift_right(args[1], args[2], self.ctype, location)
        [] kind = "Compare" -> fold_compare_op(args[1], args[2], x.aux)
        [] kind = "Ternary" ->
             IF args[1].expr = Literal(IntLit(W(0))) THEN Ok(args[3].expr)
             ELSE IF args[1].expr.kind = "Literal" /\ args[1].expr.lit.tag = "Int"
             THEN Ok(args[2].expr)
             ELSE rebuilt
        [] kind = "Cast" -> cast(args[1], self.ctype)
        [] kind \in {"Noop", "FuncCall", "Member", "Assign", "PostIncrement", "StaticRef"} ->
             rebuilt

\* the arms of the match in const_fold; operands is fold_all of the
\* operands, which only the arms of fold_operands look at
fold_arm(self, operands) ==
  LET x        == self.expr
      kind     == x.kind
      location == self.location
  IN  CASE kind = "Literal" -> Ok(x)
        [] kind = "Id" ->
             LET m == find_member(self.ctype.members, x.aux)
             IN  IF self.ctype.t = "Enum" /\ m.found THEN Ok(Literal(IntLit(m.value)))
                 ELSE Ok(x)
        [] kind = "Sizeof" ->
             LET size == sizeof(x.ty)
             IN  IF size.ok THEN Ok(Literal(UnsignedInt(FromNat(size.size, WordBytes))))
                 ELSE Err(Generic(size.msg), location)
        [] kind \in {"Div", "Mod"} -> fold_div_mod(x.args[1], x.args[2], location, kind)
        [] OTHER -> IF operands.st # "ok" THEN operands ELSE fold_operands(self, operands.v)

\* a variant of the flag computation that keeps the flag of the input
keep_constexpr(self, folded) == self.constexpr

\* whether the folded payload makes the expression constexpr
is_constexpr(self, folded) == folded.kind = "Literal"

\* the Expr that const_fold builds around the folded payload
with_folded(self, folded) ==
  IF folded.st # "ok" THEN folded
  ELSE Ok(Expr(folded.v, self.ctype, is_constexpr(self, folded.v), self.lval,
               self.location))

const_fold(self) == with_folded(self, fold_arm(self, fold_all(self.expr.args)))

(***************************************************************************)
(* The expressions handed to const_fold.  They have the shapes the parser  *)
(* builds (src/src/data.rs, ExprType): literals carry the type the lexer   *)
(* gives them, the operands of a binary operator have one type unless one  *)
(* of them is not a literal, and only integers are shifted.                *)
(***************************************************************************)
\* small Int literals range over -MaxSmall .. MaxSmall
MaxSmall == 2
\* depth of the expression trees
MaxDepth == 2
\* number of arguments of a function call
MaxParams == 2

LongT == Ty("Long", TRUE)
ULongT == Ty("Long", FALSE)
IntT == Ty("Int", TRUE)
CharT == Ty("Char", TRUE)
DoubleT == Ty("Double", FALSE)
BoolT == Ty("Bool", FALSE)
PointerT == Ty("Pointer", FALSE)
VoidT == Ty("Void", FALSE)
FunctionT == Ty("Function", FALSE)
EnumT == EnumTy(<<<<"A", W(0)>>, <<"B", W(7)>>>>)

LitExpr(lit, ctype) == Expr(Literal(lit), ctype, TRUE, FALSE, 0)
IdExpr(name, ctype) == Expr(ET("Id", <<>>, NoLit, name, NoType), ctype, FALSE, TRUE, 0)
Node(kind, args, aux, ty, ctype) ==
  Expr(ET(kind, args, NoLit, aux, ty), ctype, FALSE, kind = "Deref", 0)

IntWords ==
  {W(v) : v \in (0 - MaxSmall)..MaxSmall}
    \cup {W(8), W(63), W(64), W(65), W(256), I64_MAX, I64_MIN, ShlW(W(1), 62)}
UnsignedWords == {W(0), W(1), W(5), W(64), W(0 - 1)}
FloatVals == {<<0, 1>>, <<3, 2>>, <<0 - 2, 1>>}

Literals ==
  {LitExpr(IntLit(w), LongT) : w \in IntWords}
    \cup {LitExpr(UnsignedInt(w), ULongT) : w \in UnsignedWords}
    \cup {LitExpr(CharLit(c), CharT) : c \in {0, 97}}
    \cup {LitExpr(FloatLit(f), DoubleT) : f \in FloatVals}
    \cup {LitExpr(StrLit(<<97>>), PointerT)}
Ids ==
  {IdExpr("x", LongT), IdExpr("u", ULongT), IdExpr("p", PointerT),
   IdExpr("B", EnumT), IdExpr("C", EnumT)}
Leaves == Literals \cup Ids

One == LitExpr(IntLit(W(1)), LongT)
SmallLeaves == {LitExpr(IntLit(W(0)), LongT), One, IdExpr("x", LongT)}
CoreLeaves ==
  SmallLeaves
    \cup {LitExpr(IntLit(I64_MAX), LongT), LitExpr(UnsignedInt(W(5)), ULongT),
          LitExpr(CharLit(97), CharT), LitExpr(FloatLit(<<3, 2>>), DoubleT),
          LitExpr(StrLit(<<97>>), PointerT), IdExpr("B", EnumT)}

ArithKinds == {"Add", "Sub", "Mul", "Div", "Mod"}
BinaryKinds ==
  ArithKinds \cup {"Xor", "BitwiseAnd", "BitwiseOr", "LogicalAnd", "LogicalOr", "Comma"}
CompareTokens == {"Less", "LessEqual", "Greater", "GreaterEqual", "EqualEqual", "NotEqual"}
UnaryKinds == {"Negate", "BitwiseNot", "Noop", "Deref", "StaticRef", "Member", "PostIncrement"}
UCharT == Ty("Char", FALSE)
CastTargets == {BoolT, LongT, ULongT, IntT, CharT, UCharT, DoubleT, PointerT, VoidT}
SizeofOperands == {LongT, IntT, CharT, EnumT, VoidT, FunctionT}

IsIntegerLit(e) == IsLiteral(e) /\ e.expr.lit.tag \in {"Int", "UnsignedInt"}

\* the floats of the model are exact for the integers below 2^31 only
SmallLit(lit) ==
  \/ \A j \in 5..WordBytes : lit.val[j] = 0 /\ lit.val[4] < 128
  \/ lit.tag = "Int" /\ \A j \in 5..WordBytes : lit.val[j] = 255 /\ lit.val[4] >= 128

\* operand pairs of one binary operator
SameTyped(l, r) == l.ctype = r.ctype \/ ~IsLiteral(l) \/ ~IsLiteral(r)
\* operand pairs of a shift
Shiftable(l, r) ==
  /\ IsIntegerLit(l) \/ ~IsLiteral(l)
  /\ IsIntegerLit(r) \/ ~IsLiteral(r) \/ r.expr.lit.tag = "Char"
  /\ is_integral(l.ctype) /\ is_integral(r.ctype)

ArithNodes(l, r) ==
  (IF SameTyped(l, r)
   THEN {Node(k, <<l, r>>, "", NoType, l.ctype) : k \in ArithKinds}
   ELSE {})
  \cup (IF Shiftable(l, r)
        THEN {Node("Shift", <<l, r>>, d, NoType, l.ctype) : d \in {"left", "right"}}
        ELSE {})

PairNodes(l, r) ==
  ArithNodes(l, r)
  \cup (IF SameTyped(l, r)
        THEN {Node(k, <<l, r>>, "", NoType, l.ctype) : k \in BinaryKinds}
               \cup {Node("Compare", <<l, r>>, t, NoType, IntT) : t \in CompareTokens}
        ELSE {})
  \cup (IF l.lval /\ SameTyped(l, r)
        THEN {Node("Assign", <<l, r>>, "Equal", NoType, l.ctype)}
        ELSE {})

UnaryNodes(e) ==
  {Node(k, <<e>>, "", NoType, e.ctype) : k \in UnaryKinds}
    \cup {Node("Cast", <<e>>, "", NoType, t) :
            t \in {c \in CastTargets :
                     c = DoubleT /\ IsIntegerLit(e) => SmallLit(e.expr.lit)}}

TernaryNodes(c, t, o) == {Node("Ternary", <<c, t, o>>, "", NoType, t.ctype)}

\* the argument lists of at most n arguments drawn from S
RECURSIVE ParamLists(_, _)
ParamLists(S, n) ==
  IF n = 0 THEN {<<>>}
  ELSE LET shorter == ParamLists(S, n - 1)
       IN  shorter \cup {<<a>> \o ps : a \in S, ps \in {q \in shorter : Len(q) = n - 1}}

FuncCalls(S) ==
  {Node("FuncCall", <<IdExpr("f", FunctionT)>> \o ps, "", NoType, LongT) :
     ps \in ParamLists(S, MaxParams)}

Sizeofs == {Node("Sizeof", <<>>, "", ty, ULongT) : ty \in SizeofOperands}

\* every node over the children C (one of them) and S (the others)
NodesOver(C, S) ==
  UNION {PairNodes(c, o) \cup PairNodes(o, c) \cup UnaryNodes(c)
           \cup TernaryNodes(c, o, One) \cup TernaryNodes(o, c, o)
           \cup TernaryNodes(One, o, c) : c \in C, o \in S}

\* the sub-expressions that deeper trees are grown from
RECURSIVE Spine(_)
Spine(d) ==
  IF d = 0 THEN Leaves
  ELSE IF d = 1
  THEN LET x   == IdExpr("x", LongT)
           i(v) == LitExpr(IntLit(W(v)), LongT)
           max == LitExpr(IntLit(I64_MAX), LongT)
       IN  {Node("Sub", <<i(2), i(2)>>, "", NoType, LongT),
            Node("Add", <<max, One>>, "", NoType, LongT),
            Node("Add", <<x, One>>, "", NoType, LongT),
            Node("Shift", <<x, i(8)>>, "left", NoType, LongT),
            Node("Shift", <<x, i(8)>>, "right", NoType, LongT),
            Node("Shift", <<One, i(0 - 1)>>, "left", NoType, LongT),
            Node("Assign", <<x, One>>, "Equal", NoType, LongT),
            Node("Cast", <<i(0)>>, "", NoType, PointerT),
            Node("FuncCall", <<IdExpr("f", FunctionT)>>, "", NoType, LongT)}
  ELSE {Node("Sub", <<s, One>>, "", NoType, LongT) : s \in Spine(d - 1)}

RECURSIVE Level(_)
Level(d) ==
  IF d = 0 THEN Leaves
  ELSE IF d = 1
  THEN UNION {ArithNodes(l, r) : l \in Leaves, r \in Leaves}
         \cup UNION {UnaryNodes(e) : e \in Leaves}
         \cup NodesOver(CoreLeaves, CoreLeaves)
         \cup FuncCalls(SmallLeaves) \cup Sizeofs
  ELSE NodesOver(Spine(d - 1), SmallLeaves)

\* the bookkeeping on a tree: a location per node (its path from the root)
\* and the constexpr flags, either as the parser sets them (literals only) or
\* the other way round; the trees of depth 1 come with the parser's flags
RECURSIVE Annotate(_, _, _)
Annotate(e, loc, inverted) ==
  LET args == [j \in 1..Len(e.expr.args) |-> Annotate(e.expr.args[j], 4 * loc + j, inverted)]
  IN  Expr(ET(e.expr.kind, args, e.expr.lit, e.expr.aux, e.expr.ty),
           e.ctype, IsLiteral(e) # inverted, e.lval, loc)

\* operands with a side effect under a shift that needs no left operand
ShiftedEffects ==
  LET x == IdExpr("x", LongT)
  IN  {Node("Shift", <<e, LitExpr(IntLit(W(64)), LongT)>>, d, NoType, LongT) :
         e \in {Node("FuncCall", <<IdExpr("f", FunctionT)>>, "", NoType, LongT),
                Node("Assign", <<x, One>>, "Equal", NoType, LongT)},
         d \in {"left", "right"}}

FoldInputs ==
  {Annotate(e, 1, FALSE) : e \in UNION {Level(d) : d \in 0..MaxDepth} \cup ShiftedEffects}
    \cup {Annotate(e, 1, TRUE) : e \in UNION {Level(d) : d \in (0..MaxDepth) \ {1}}}

(***************************************************************************)
(* The lexer (src/src/lex/mod.rs).  A Lexer is a record of the fields of   *)
(* struct Lexer; location is the byte offset.  An absent byte (the None of *)
(* Option<u8>) is NoByte.  Every method is an operator from the lexer to   *)
(* the lexer it leaves behind (lx) and what it returns.                    *)
(***************************************************************************)
NoByte == 0 - 1

\* the bytes the lexer names
ch == [nl |-> 10, tab |-> 9, cr |-> 13, ff |-> 12, space |-> 32, bang |-> 33,
      dquote |-> 34, hash |-> 35, percent |-> 37, amp |-> 38, quote |-> 39,
      lparen |-> 40, rparen |-> 41, star |-> 42, plus |-> 43, comma |-> 44,
      minus |-> 45, dot |-> 46, slash |-> 47, zero |-> 48, nine |-> 57,
      colon |-> 58, semi |-> 59, lt |-> 60, eq |-> 61, gt |-> 62,
      question |-> 63, at |-> 64, E |-> 69, F |-> 70, L |-> 76, P |-> 80,
      U |-> 85, lbracket |-> 91, backslash |-> 92, rbracket |-> 93,
      caret |-> 94, underscore |-> 95, a |-> 97, b |-> 98, e |-> 101,
      f |-> 102, l |-> 108, n |-> 110, p |-> 112, r |-> 114, t |-> 116,
      u |-> 117, v |-> 118, x |-> 120, lbrace |-> 123, pipe |-> 124,
      rbrace |-> 125, tilde |-> 126]

is_ascii_whitespace(c) == c \in {ch.space, ch.tab, ch.nl, ch.ff, ch.cr}
is_ascii_digit(c) == c >= ch.zero /\ c <= ch.nine
is_id_byte(c) ==
  \/ is_ascii_digit(c)
  \/ c >= 97 /\ c <= 122
  \/ c >= 65 /\ c <= 90
  \/ c = ch.underscore

\* char::to_digit(16), NoByte when c is no hexadecimal digit
to_digit(c) ==
  IF is_ascii_digit(c) THEN c - ch.zero
  ELSE IF c >= 97 /\ c <= 102 THEN c - 87
  ELSE IF c >= 65 /\ c <= 70 THEN c - 55
  ELSE NoByte

\* char::is_digit(radix)
is_digit(c, radix) == to_digit(c) # NoByte /\ to_digit(c) < radix

\* Lexer::new
Lexer(chars) ==
  [chars |-> chars, offset |-> 0, current |-> NoByte, lookahead |-> NoByte,
   seen_line_token |-> FALSE, line |-> 0, error_handler |-> <<>>]

\* self.chars.as_bytes().get(i).copied()
get(chars, i) == IF i >= 0 /\ i < Len(chars) THEN chars[i + 1] ELSE NoByte

\* a variant of the bookkeeping of next_char that also counts a byte that
\* is not there
advance_unchecked(lx, c) == [lx EXCEPT !.offset = @ + 1]

\* the closure of next_char: count the byte that was read
advance(lx, c) ==
  IF c = NoByte THEN lx
  ELSE [lx EXCEPT !.offset = @ + 1,
                  !.seen_line_token = IF c = ch.nl THEN FALSE ELSE @,
                  !.line = IF c = ch.nl THEN @ + 1 ELSE @]

\* a variant of next_char that goes back to the first byte at the end of
\* the source
next_char_rewinding(lx) ==
  IF lx.current # NoByte
  THEN [c  |-> lx.current,
        lx |-> advance([lx EXCEPT !.current = lx.lookahead, !.lookahead = NoByte],
                       lx.current)]
  ELSE IF get(lx.chars, lx.offset) = NoByte
  THEN [c |-> NoByte, lx |-> [lx EXCEPT !.offset = 0]]
  ELSE [c  |-> get(lx.chars, lx.offset),
        lx |-> advance(lx, get(lx.chars, lx.offset))]

next_char(lx) ==
  IF lx.current # NoByte
  THEN [c  |-> lx.current,
        lx |-> advance([lx EXCEPT !.current = lx.lookahead, !.lookahead = NoByte],
                       lx.current)]
  ELSE [c  |-> get(lx.chars, lx.offset),
        lx |-> advance(lx, get(lx.chars, lx.offset))]

\* the byte peek leaves in current
peeked(lx) ==
  IF lx.current # NoByte THEN lx.current
  ELSE IF lx.lookahead # NoByte THEN lx.lookahead
  ELSE get(lx.chars, lx.offset)

peek(lx) ==
  [c  |-> peeked(lx),
   lx |-> [lx EXCEPT !.current = peeked(lx),
                     !.lookahead = IF lx.current = NoByte THEN NoByte ELSE @]]

peek_next(lx) ==
  IF lx.lookahead # NoByte THEN [c |-> lx.lookahead, lx |-> lx]
  ELSE [c  |-> get(lx.chars, lx.offset + 1),
        lx |-> [lx EXCEPT !.lookahead = get(lx.chars, lx.offset + 1)]]

match_next(lx, item) ==
  IF peeked(lx) = item
  THEN [ok |-> TRUE, lx |-> next_char(peek(lx).lx).lx]
  ELSE [ok |-> FALSE, lx |-> peek(lx).lx]

\* the span of Lexer::span
span(lx, start) == <<start, lx.offset>>

\* error_handler.warn
warn(lx, msg, location) ==
  [lx EXCEPT !.error_handler = Append(@, [msg |-> msg, location |-> location])]

RECURSIVE consume_whitespace(_)
consume_whitespace(lx) ==
  IF is_ascii_whitespace(peeked(lx))
  THEN consume_whitespace(next_char(peek(lx).lx).lx)
  ELSE peek(lx).lx

\* the loop of consume_line_comment, on the result of next_char
RECURSIVE line_comment_rest(_)
consume_line_comment(lx) == line_comment_rest(next_char(lx))
line_comment_rest(n) ==
  IF n.c = NoByte \/ n.c = ch.nl THEN n.lx ELSE consume_line_comment(n.lx)

\* the items of the token stream: Ok(Locatable<Token>), or Err with the
\* error where the token would be
Token(t, v) == [t |-> t, v |-> v]
Item(ok, data, location) == [ok |-> ok, data |-> data, location |-> location]
NoItem == [ok |-> FALSE, data |-> Token("None", <<>>), location |-> <<0, 0>>]
LexGeneric(msg) == Token("Generic", msg)
UnterminatedComment == Token("UnterminatedComment", <<>>)

\* the loop of consume_multi_comment, on the result of next_char
RECURSIVE multi_comment_rest(_, _)
multi_comment_loop(lx, start) == multi_comment_rest(next_char(lx), start)
multi_comment_rest(n, start) ==
  IF n.c = NoByte
  THEN [ok |-> FALSE, lx |-> n.lx,
        err |-> Item(FALSE, UnterminatedComment, span(n.lx, start))]
  ELSE IF n.c = ch.star
  THEN IF peeked(n.lx) = ch.slash
       THEN [ok |-> TRUE, lx |-> next_char(peek(n.lx).lx).lx, err |-> NoItem]
       ELSE multi_comment_loop(peek(n.lx).lx, start)
  ELSE multi_comment_loop(n.lx, start)

\* a variant that starts the span of the comment behind its opener
consume_multi_comment_body(lx) == multi_comment_loop(lx, lx.offset)

\* lx has read the opener: let start = self.location.offset - 2
consume_multi_comment(lx) == multi_comment_loop(lx, lx.offset - 2)

(***************************************************************************)
(* Number literals.  buf is the text handed to the float parsers, a        *)
(* sequence of bytes; an integer is a 64-bit word as in the folder.  A     *)
(* float is kept exactly, as its significant digits and the position of    *)
(* the point: 0.d1 d2 .. dn * radix^point (times 2^exp2 for a hexadecimal  *)
(* float), with d1 and dn not zero; zero has no digits.                    *)
(***************************************************************************)
Float(digits, point, exp2, hex) ==
  [digits |-> digits, point |-> point, exp2 |-> exp2, hex |-> hex]

\* results of the parsers: Ok(v) or Err(msg), with the lexer left behind
Parsed(lx, v) == [ok |-> TRUE, v |-> v, msg |-> <<>>, lx |-> lx]
Failed(lx, msg) == [ok |-> FALSE, v |-> <<>>, msg |-> msg, lx |-> lx]

radix_name(radix) ==
  CASE radix = 2 -> "binary"
    [] radix = 8 -> "octal"
    [] radix = 10 -> "decimal"
    [] radix = 16 -> "hexadecimal"

\* the closure parse_digit of parse_int
parse_digit(c, radix) ==
  IF to_digit(c) = NoByte THEN [st |-> "none", digit |-> 0]
  ELSE IF to_digit(c) < radix THEN [st |-> "some", digit |-> to_digit(c)]
  ELSE IF to_digit(c) \in {11, 14, 15} THEN [st |-> "none", digit |-> 0]
  ELSE [st |-> "err", digit |-> to_digit(c)]

\* acc.checked_mul(radix).and_then(|a| a.checked_add(digit)), computed in
\* one byte more than a u64 has
checked_push(acc, radix, digit) ==
  AddW(MulByte(ZeroExt(acc, WordBytes + 1), radix), FromNat(digit, WordBytes + 1))

\* the loop of parse_int; s holds acc, err, saw_digit and buf
RECURSIVE parse_int_loop(_, _, _)
parse_int_step(lx, radix, s, c, digits) ==
  parse_int_loop(lx, radix,
                 [acc       |-> IF digits[WordBytes + 1] = 0
                                THEN SubSeq(digits, 1, WordBytes) ELSE s.acc,
                  err       |-> digits[WordBytes + 1] # 0,
                  saw_digit |-> TRUE,
                  buf       |-> Append(s.buf, c)])
parse_int_digit(lx, radix, s, d) ==
  IF d.st = "err"
  THEN Failed(lx, <<"invalid digit", d.digit, radix_name(radix)>>)
  ELSE IF d.st = "none" THEN Parsed(lx, s)
  ELSE parse_int_step(next_char(lx).lx, radix, s, peeked(lx),
                      checked_push(s.acc, radix, d.digit))
parse_int_loop(lx, radix, s) ==
  IF peeked(lx) = NoByte THEN Parsed(peek(lx).lx, s)
  ELSE IF s.err THEN parse_int_loop(next_char(peek(lx).lx).lx, radix, s)
  ELSE parse_int_digit(peek(lx).lx, radix, s, parse_digit(peeked(lx), radix))

\* what parse_int returns after its loop: v.int is the Option<u64>
parse_int_result(r) ==
  IF ~r.ok THEN r
  ELSE IF r.v.err THEN Failed(r.lx, <<"overflow parsing integer literal">>)
  ELSE Parsed(r.lx, [some |-> r.v.saw_digit, int |-> r.v.acc, buf |-> r.v.buf])

parse_int(lx, acc, radix, buf) ==
  parse_int_result(parse_int_loop(lx, radix,
    [acc |-> acc, err |-> FALSE, saw_digit |-> FALSE, buf |-> buf]))

\* the largest exponent the float parsers tell apart; beyond it every
\* number is infinite or zero
ExpCap == 100000

RECURSIVE IndexOf(_, _, _)
\* the first index from i on at which buf holds c, 0 if there is none
IndexOf(buf, c, i) ==
  IF i > Len(buf) THEN 0 ELSE IF buf[i] = c THEN i ELSE IndexOf(buf, c, i + 1)

RECURSIVE DecimalOf(_, _)
\* the number the decimal digits of text spell, from acc on, capped
DecimalOf(text, acc) ==
  IF text = <<>> \/ acc > ExpCap THEN acc
  ELSE DecimalOf(Tail(text), 10 * acc + to_digit(Head(text)))

RECURSIVE LeadingZeros(_)
LeadingZeros(digits) ==
  IF digits = <<>> \/ Head(digits) # 0 THEN 0 ELSE 1 + LeadingZeros(Tail(digits))

RECURSIVE StripTrailing(_)
StripTrailing(digits) ==
  IF digits = <<>> \/ digits[Len(digits)] # 0 THEN digits
  ELSE StripTrailing(SubSeq(digits, 1, Len(digits) - 1))

\* the float with the significant digits all, of which lz lead with zero
Stripped(stripped, point, exp2, hex) ==
  IF stripped = <<>> THEN Float(<<>>, 0, 0, hex) ELSE Float(stripped, point, exp2, hex)
Unpadded(all, lz, point, exp2, hex) ==
  Stripped(StripTrailing(SubSeq(all, lz + 1, Len(all))), point - lz, exp2, hex)
Digits(all, point, exp2, hex) == Unpadded(all, LeadingZeros(all), point, exp2, hex)

\* the float with the given digits before and after the point
Significant(int, frac, exp10, exp2, hex) ==
  Digits([i \in 1..(Len(int) + Len(frac)) |->
            to_digit(IF i <= Len(int) THEN int[i] ELSE frac[i - Len(int)])],
         Len(int) + exp10, exp2, hex)

\* the exponent a text of a sign and digits spells: none without digits
Exponent(negative, digits) ==
  [ok |-> digits # <<>>,
   value |-> IF negative THEN 0 - DecimalOf(digits, 0) ELSE DecimalOf(digits, 0)]
SignedExponent(text) ==
  IF text # <<>> /\ Head(text) \in {ch.plus, ch.minus}
  THEN Exponent(Head(text) = ch.minus, Tail(text))
  ELSE Exponent(FALSE, text)

\* the parts of a float text: digits, a point at dot, digits, and after
\* the mark at m (e or p; 0 without one) the exponent
PartsAt(buf, dot, m) ==
  [int  |-> SubSeq(buf, 1, dot - 1),
   frac |-> SubSeq(buf, dot + 1, IF m = 0 THEN Len(buf) ELSE m - 1),
   has_exp |-> m # 0,
   exp  |-> SignedExponent(IF m = 0 THEN <<>> ELSE SubSeq(buf, m + 1, Len(buf)))]
PartsFrom(buf, mark, dot) == PartsAt(buf, dot, IndexOf(buf, mark, dot + 1))
FloatParts(buf, mark) == PartsFrom(buf, mark, IndexOf(buf, ch.dot, 1))

\* the outcome of a float parser
FloatOk(v) == [ok |-> TRUE, msg |-> <<>>, v |-> v]
FloatErr(msg) == [ok |-> FALSE, msg |-> <<msg>>, v |-> <<>>]

\* str::parse::<f64> on the texts parse_exponent builds: digits, a point,
\* digits, and an optional e with a signed exponent that needs a digit
f64_of(parts) ==
  IF parts.int = <<>> /\ parts.frac = <<>> THEN FloatErr("invalid float literal")
  ELSE IF parts.has_exp /\ ~parts.exp.ok THEN FloatErr("invalid float literal")
  ELSE FloatOk(Significant(parts.int, parts.frac,
                           IF parts.has_exp THEN parts.exp.value ELSE 0, 0, FALSE))
parse_f64(buf) == f64_of(FloatParts(buf, ch.e))

\* bits of one hexadecimal digit that is not zero: the position of its
\* highest bit, and the number of zero bits below its lowest
HighBit(d) == IF d >= 8 THEN 4 ELSE IF d >= 4 THEN 3 ELSE IF d >= 2 THEN 2 ELSE 1
LowZeros(d) == IF d % 2 = 1 THEN 0 ELSE IF d % 4 = 2 THEN 1 ELSE IF d % 8 = 4 THEN 2 ELSE 3

\* whether an f64 holds the hexadecimal float whose highest bit is at top
\* and whose lowest is at low
FitsBits(top, low) == top <= 1023 /\ low >= 0 - 1074 /\ top - low + 1 <= 53
FitsF64(f) ==
  \/ f.digits = <<>>
  \/ FitsBits(4 * (f.point - 1) + HighBit(Head(f.digits)) - 1 + f.exp2,
              4 * (f.point - Len(f.digits)) + LowZeros(f.digits[Len(f.digits)]) + f.exp2)

\* hexf_parse::parse_hexf64 on the texts parse_exponent builds: 0x, digits,
\* a point, digits, and p with a signed exponent, which hexf requires
hexf64_exact(value) ==
  IF ~FitsF64(value) THEN FloatErr("cannot exactly represent float in target type")
  ELSE FloatOk(value)
hexf64_of(parts) ==
  IF parts.int = <<>> /\ parts.frac = <<>> THEN FloatErr("invalid hexadecimal float literal")
  ELSE IF ~parts.has_exp \/ ~parts.exp.ok THEN FloatErr("invalid hexadecimal float literal")
  ELSE hexf64_exact(Significant(parts.int, parts.frac, 0, parts.exp.value, TRUE))
parse_hexf64(buf) == hexf64_of(FloatParts(SubSeq(buf, 3, Len(buf)), ch.p))

RECURSIVE DigitsLess(_, _, _)
\* whether the digit string x is below y, both read after the point
DigitLess(x, y, i, dx, dy) == IF dx # dy THEN dx < dy ELSE DigitsLess(x, y, i + 1)
DigitsLess(x, y, i) ==
  IF i > Len(x) /\ i > Len(y) THEN FALSE
  ELSE DigitLess(x, y, i, IF i <= Len(x) THEN x[i] ELSE 0, IF i <= Len(y) THEN y[i] ELSE 0)

\* 2^1024 - 2^970 = 0.1797693134862315807.. * 10^309: from here on a
\* decimal float rounds to infinity
is_infinite(f) ==
  /\ ~f.hex /\ f.digits # <<>>
  /\ \/ f.point > 309
     \/ f.point = 309
        /\ ~DigitsLess(f.digits, <<1, 7, 9, 7, 6, 9, 3, 1, 3, 4, 8, 6, 2, 3, 1, 5, 8, 0, 7, 9>>, 1)

\* 2^-1075 = 0.2470328229206232720.. * 10^-323: up to here a decimal float
\* rounds to zero
is_zero_float(f) ==
  \/ f.digits = <<>>
  \/ /\ ~f.hex
     /\ \/ f.point < 0 - 323
        \/ f.point = 0 - 323
           /\ DigitsLess(f.digits, <<2, 4, 7, 0, 3, 2, 8, 2, 2, 9, 2, 0, 6, 2, 3, 2, 7, 2, 0, 9>>, 1)

\* the float an f64 holds: what rounds to zero is zero
as_f64(f) == IF is_zero_float(f) THEN Float(<<>>, 0, 0, f.hex) ELSE f

\* the closure is_digit of parse_exponent
is_exponent_start(c) == is_ascii_digit(c) \/ c = ch.plus \/ c = ch.minus

\* the bytes of a float text that spell zero
should_be_zero(buf) ==
  \A i \in 1..Len(buf) : buf[i] \in {ch.dot, ch.plus, ch.minus, ch.e, ch.p, ch.zero}

\* the end of parse_exponent: the text is parsed and checked
parse_exponent_value(lx, hex, buf, float) ==
  IF ~float.ok THEN Failed(lx, float.msg)
  ELSE IF is_infinite(float.v) THEN Failed(lx, <<"overflow parsing floating literal">>)
  ELSE IF is_zero_float(float.v) /\ ~should_be_zero(buf)
  THEN Failed(lx, <<"underflow parsing floating literal">>)
  ELSE Parsed(lx, as_f64(float.v))

\* the loop of parse_exponent over the digits of the exponent
RECURSIVE parse_exponent_digits(_, _, _)
parse_exponent_digits(lx, hex, buf) ==
  IF is_ascii_digit(peeked(lx))
  THEN parse_exponent_digits(next_char(peek(lx).lx).lx, hex, Append(buf, peeked(lx)))
  ELSE parse_exponent_value(peek(lx).lx, hex, buf,
                            IF hex THEN parse_hexf64(buf) ELSE parse_f64(buf))

\* parse_exponent after the e or p was (m.ok) or was not matched
parse_exponent_mark(m, hex, buf) ==
  IF m.ok /\ ~is_exponent_start(peeked(m.lx))
  THEN Failed(peek(m.lx).lx, <<"exponent for floating literal has no digits">>)
  ELSE parse_exponent_digits(
         IF m.ok THEN next_char(peek(m.lx).lx).lx ELSE m.lx, hex,
         IF m.ok THEN buf \o <<IF hex THEN ch.p ELSE ch.e, peeked(m.lx)>> ELSE buf)

\* a || b || .. of match_next calls: the first byte of items that matches
RECURSIVE match_any(_, _)
match_rest(m, items) == IF m.ok THEN m ELSE match_any(m.lx, items)
match_any(lx, items) ==
  IF items = <<>> THEN [ok |-> FALSE, lx |-> lx]
  ELSE match_rest(match_next(lx, Head(items)), Tail(items))

parse_exponent(lx, hex, buf) ==
  parse_exponent_mark(IF hex THEN match_any(lx, <<ch.p, ch.P>>)
                      ELSE match_any(lx, <<ch.e, ch.E>>), hex, buf)

consume_float_suffix(lx) == match_any(lx, <<ch.f, ch.F, ch.l, ch.L>>).lx

\* the float of parse_float and parse_num, with the suffix consumed
with_float_suffix(float) ==
  [float EXCEPT !.lx = consume_float_suffix(float.lx)]

\* the loop of parse_float over the digits of the fraction
RECURSIVE parse_float_digits(_, _, _)
parse_float_digits(lx, radix, buf) ==
  IF peeked(lx) # NoByte /\ is_digit(peeked(lx), radix)
  THEN parse_float_digits(next_char(peek(lx).lx).lx, radix, Append(buf, peeked(lx)))
  ELSE with_float_suffix(parse_exponent(peek(lx).lx, radix = 16, buf))

parse_float(lx, radix, buf) == parse_float_digits(lx, radix, Append(buf, ch.dot))

\* .map(float_literal)
float_literal(float) ==
  IF float.ok THEN [float EXCEPT !.v = Token("Literal", FloatLit(float.v))] ELSE float

\* the end of parse_num: the warning for a binary literal, and the token
parse_num_token(lx, radix, literal, span_start) ==
  Parsed(IF radix = 2
         THEN warn(lx, "binary number literals are an extension", span(lx, span_start))
         ELSE lx,
         Token("Literal", literal))

\* the l, ll, L and LL suffixes: l1 is match_next(b'l'), big is
\* match_next(b'L') after it
long_suffix(l1, big) ==
  IF l1.ok THEN match_next(l1.lx, ch.l).lx
  ELSE IF big.ok THEN match_next(big.lx, ch.L).lx
  ELSE big.lx
long_suffix_after(l1) == long_suffix(l1, match_next(l1.lx, ch.L))
parse_num_suffix(lx, radix, literal, span_start) ==
  parse_num_token(long_suffix_after(match_next(lx, ch.l)), radix, literal, span_start)

\* parse_num once the integer part is known: u is match_next(b'u') ||
\* match_next(b'U')
parse_num_literal(u, radix, digits, span_start) ==
  IF ~u.ok /\ digits[WordBytes] >= 128
  THEN Failed(u.lx, <<"overflow while parsing signed integer literal">>)
  ELSE parse_num_suffix(u.lx, radix, IF u.ok THEN UnsignedInt(digits) ELSE IntLit(digits),
                        span_start)

\* parse_num after the first {digits}: m is match_next(b'.')
parse_num_tail(m, radix, digits, buf, span_start) ==
  IF m.ok THEN float_literal(parse_float(m.lx, radix, buf))
  ELSE IF peeked(m.lx) \in {ch.e, ch.E, ch.p, ch.P}
  THEN float_literal(with_float_suffix(
         parse_exponent(peek(m.lx).lx, radix = 16, buf \o <<ch.dot, ch.zero>>)))
  ELSE parse_num_literal(match_any(peek(m.lx).lx, <<ch.u, ch.U>>), radix, digits,
                         span_start)

\* parse_num on what parse_int returned
parse_num_digits(int, start, radix, span_start) ==
  IF ~int.ok THEN int
  ELSE IF ~int.v.some /\ radix # 8 /\ radix # 10 /\ peeked(int.lx) # ch.dot
  THEN Failed(peek(int.lx).lx,
              <<"missing digits to integer constant",
                IF radix = 2 THEN "binary" ELSE "hexadecimal">>)
  ELSE parse_num_tail(match_next(int.lx, ch.dot), radix,
                      IF int.v.some THEN int.v.int ELSE start, int.v.buf, span_start)

\* parse_num with the radix found: r.lx is the lexer after the prefix
parse_num_radix(r, start, span_start) ==
  parse_num_digits(parse_int(r.lx, FromNat(start - ch.zero, WordBytes), r.radix, r.buf),
                   FromNat(start - ch.zero, WordBytes), r.radix, span_start)

\* the radix of a number that starts with 0, or float for "0.": bin, hex
\* and dot are the match_next calls for b, x and .
Prefix(radix, lx, buf, float) == [radix |-> radix, lx |-> lx, buf |-> buf, float |-> float]
zero_dot(dot) == Prefix(IF dot.ok THEN 10 ELSE 8, dot.lx, <<ch.zero>>, dot.ok)
zero_hex(hex) ==
  IF hex.ok THEN Prefix(16, hex.lx, <<ch.zero, ch.x>>, FALSE)
  ELSE zero_dot(match_next(hex.lx, ch.dot))
zero_bin(bin) ==
  IF bin.ok THEN Prefix(2, bin.lx, <<ch.zero>>, FALSE)
  ELSE zero_hex(match_next(bin.lx, ch.x))
zero_prefix(lx) == zero_bin(match_next(lx, ch.b))

parse_num_prefixed(r, start, span_start) ==
  IF r.float THEN float_literal(parse_float(r.lx, 10, r.buf))
  ELSE parse_num_radix(r, start, span_start)

parse_num(lx, start) ==
  parse_num_prefixed(
    IF start = ch.zero THEN zero_prefix(lx) ELSE Prefix(10, lx, <<start>>, FALSE),
    start, lx.offset - 1)

(***************************************************************************)
(* Character and string literals, identifiers.                             *)
(***************************************************************************)
\* the byte an escape letter stands for, NoByte for an unknown escape
escape(c) ==
  CASE c = ch.n -> 10
    [] c = ch.r -> 13
    [] c = ch.t -> 9
    [] c = ch.dquote -> ch.dquote
    [] c = ch.quote -> ch.quote
    [] c = ch.backslash -> ch.backslash
    [] c = ch.zero -> 0
    [] c = ch.a -> 7
    [] c = ch.b -> 8
    [] c = ch.v -> 11
    [] c = ch.f -> 12
    [] c = ch.question -> ch.question
    [] OTHER -> NoByte

\* Result<u8, CharError>
CharOk(lx, c) == [st |-> "ok", c |-> c, lx |-> lx]
CharError(lx, kind) == [st |-> kind, c |-> NoByte, lx |-> lx]

RECURSIVE parse_single_char(_, _)
\* parse_single_char after the backslash: n is the result of next_char
parse_escape(n, string) ==
  IF n.c = NoByte THEN CharError(n.lx, "Eof")
  ELSE IF n.c = ch.nl THEN parse_single_char(n.lx, string)
  ELSE IF escape(n.c) # NoByte THEN CharOk(n.lx, escape(n.c))
  ELSE CharOk(warn(n.lx, <<"unknown character escape", n.c>>,
                   span(n.lx, n.lx.offset - 1)), n.c)

\* parse_single_char on the result of its first next_char
parse_first(n, string) ==
  IF n.c = NoByte THEN CharError(n.lx, "Eof")
  ELSE IF n.c = ch.backslash THEN parse_escape(next_char(n.lx), string)
  ELSE IF n.c = ch.nl THEN CharError(n.lx, "Newline")
  ELSE IF n.c = (IF string THEN ch.dquote ELSE ch.quote) THEN CharError(n.lx, "Terminator")
  ELSE CharOk(n.lx, n.c)

parse_single_char(lx, string) == parse_first(next_char(lx), string)

\* the loop of consume_until_quote, on the result of parse_single_char
RECURSIVE until_quote_rest(_)
consume_until_quote(lx) == until_quote_rest(parse_single_char(lx, FALSE))
until_quote_rest(r) ==
  IF r.st # "ok" \/ r.c = ch.quote THEN r.lx ELSE consume_until_quote(r.lx)

\* parse_char after a logical character c: n is the result of next_char
parse_char_end(n, c) ==
  IF n.c = ch.quote THEN Parsed(n.lx, Token("Literal", CharLit(c)))
  ELSE IF n.c = ch.nl THEN Failed(n.lx, <<"Illegal newline while parsing char literal">>)
  ELSE IF n.c = NoByte
  THEN Failed(n.lx, <<"Missing terminating ' character in char literal">>)
  ELSE Failed(consume_until_quote(n.lx), <<"Multi-character character literal">>)

\* parse_char on the result of parse_single_char
parse_char_first(r) ==
  CASE r.st = "ok" /\ r.c < 128 -> parse_char_end(next_char(r.lx), r.c)
    [] r.st = "ok" /\ r.c >= 128 ->
         Failed(consume_until_quote(r.lx), <<"Multi-byte unicode character literal">>)
    [] r.st = "Eof" -> Failed(r.lx, <<"Missing terminating ' character in char literal">>)
    [] r.st = "Newline" -> Failed(r.lx, <<"Illegal newline while parsing char literal">>)
    [] r.st = "Terminator" -> Failed(r.lx, <<"Empty character constant">>)

parse_char(lx) == parse_char_first(parse_single_char(lx, FALSE))

\* the loops of parse_string: string_body reads one literal up to its
\* closing quote, parse_string_from looks for the next opening quote
RECURSIVE parse_string_from(_, _)
RECURSIVE string_body(_, _)
string_char(r, literal) ==
  CASE r.st = "ok" -> string_body(r.lx, Append(literal, r.c))
    [] r.st = "Eof" ->
         Failed(r.lx, <<"Missing terminating \" character in string literal">>)
    [] r.st = "Newline" -> Failed(r.lx, <<"Illegal newline while parsing string literal">>)
    [] r.st = "Terminator" -> parse_string_from(consume_whitespace(r.lx), literal)
string_body(lx, literal) == string_char(parse_single_char(lx, TRUE), literal)
parse_string_from(lx, literal) ==
  IF peeked(lx) = ch.dquote THEN string_body(next_char(peek(lx).lx).lx, literal)
  ELSE Parsed(peek(lx).lx, Token("Literal", StrLit(Append(literal, 0))))

parse_string(lx) == parse_string_from(lx, <<>>)

\* the loop of parse_id
RECURSIVE parse_id_rest(_, _)
parse_id_rest(lx, id) ==
  IF peeked(lx) # NoByte /\ is_id_byte(peeked(lx))
  THEN parse_id_rest(next_char(peek(lx).lx).lx, Append(id, peeked(lx)))
  ELSE Parsed(peek(lx).lx, Token("Id", id))

parse_id(lx, start) == parse_id_rest(lx, <<start>>)

(***************************************************************************)
(* Iterator::next.                                                         *)
(***************************************************************************)
\* the arms of the match that look at no further byte
Punctuation ==
  [c \in {ch.hash, ch.lbrace, ch.rbrace, ch.lparen, ch.rparen, ch.lbracket,
          ch.rbracket, ch.tilde, ch.colon, ch.semi, ch.comma, ch.question} |->
     CASE c = ch.hash -> "Hash"
       [] c = ch.lbrace -> "LeftBrace"
       [] c = ch.rbrace -> "RightBrace"
       [] c = ch.lparen -> "LeftParen"
       [] c = ch.rparen -> "RightParen"
       [] c = ch.lbracket -> "LeftBracket"
       [] c = ch.rbracket -> "RightBracket"
       [] c = ch.tilde -> "BinaryNot"
       [] c = ch.colon -> "Colon"
       [] c = ch.semi -> "Semicolon"
       [] c = ch.comma -> "Comma"
       [] c = ch.question -> "Question"]

\* the arms that look at one more byte: the token of the byte alone, and
\* the tokens of the byte with a second one
Operators ==
  [c \in {ch.plus, ch.minus, ch.star, ch.slash, ch.percent, ch.caret, ch.eq,
          ch.bang, ch.gt, ch.lt, ch.amp, ch.pipe} |->
     CASE c = ch.plus -> [alone |-> "Plus", pairs |-> {<<ch.eq, "PlusEqual">>, <<ch.plus, "PlusPlus">>}]
       [] c = ch.minus -> [alone |-> "Minus",
                           pairs |-> {<<ch.eq, "MinusEqual">>, <<ch.minus, "MinusMinus">>,
                                      <<ch.gt, "StructDeref">>}]
       [] c = ch.star -> [alone |-> "Star", pairs |-> {<<ch.eq, "StarEqual">>}]
       [] c = ch.slash -> [alone |-> "Divide", pairs |-> {<<ch.eq, "DivideEqual">>}]
       [] c = ch.percent -> [alone |-> "Mod", pairs |-> {<<ch.eq, "ModEqual">>}]
       [] c = ch.caret -> [alone |-> "Xor", pairs |-> {<<ch.eq, "XorEqual">>}]
       [] c = ch.eq -> [alone |-> "EQUAL", pairs |-> {<<ch.eq, "EqualEqual">>}]
       [] c = ch.bang -> [alone |-> "LogicalNot", pairs |-> {<<ch.eq, "NotEqual">>}]
       [] c = ch.gt -> [alone |-> "Greater",
                        pairs |-> {<<ch.eq, "GreaterEqual">>, <<ch.gt, "ShiftRight">>}]
       [] c = ch.lt -> [alone |-> "Less",
                        pairs |-> {<<ch.eq, "LessEqual">>, <<ch.lt, "ShiftLeft">>}]
       [] c = ch.amp -> [alone |-> "Ampersand",
                         pairs |-> {<<ch.amp, "LogicalAnd">>, <<ch.eq, "AndEqual">>}]
       [] c = ch.pipe -> [alone |-> "BitwiseOr",
                          pairs |-> {<<ch.pipe, "LogicalOr">>, <<ch.eq, "OrEqual">>}]]

\* >> and << become >>= and <<= before a =
shift_assign(m, name) ==
  Parsed(m.lx, Token(IF ~m.ok THEN name
                     ELSE IF name = "ShiftRight" THEN "RightEqual" ELSE "LeftEqual", <<>>))

\* an operator arm that matched a second byte, with the name of the pair
pair_token(lx, name) ==
  IF name \in {"ShiftRight", "ShiftLeft"}
  THEN shift_assign(match_next(next_char(lx).lx, ch.eq), name)
  ELSE Parsed(next_char(lx).lx, Token(name, <<>>))

\* an operator arm: lx has peeked, second is the byte it saw
operator_token(lx, c, second) ==
  IF \E pair \in Operators[c].pairs : pair[1] = second
  THEN pair_token(lx, (CHOOSE pair \in Operators[c].pairs : pair[1] = second)[2])
  ELSE Parsed(lx, Token(Operators[c].alone, <<>>))

\* the arm of b'.': lx has peeked, second is the byte it saw
dot_token(lx, second) ==
  IF second # NoByte /\ is_ascii_digit(second)
  THEN float_literal(parse_float(lx, 10, <<>>))
  ELSE IF second = ch.dot
  THEN IF peek_next(lx).c = ch.dot
       THEN Parsed(next_char(next_char(peek_next(lx).lx).lx).lx, Token("Ellipsis", <<>>))
       ELSE Parsed(peek_next(lx).lx, Token("Dot", <<>>))
  ELSE Parsed(lx, Token("Dot", <<>>))

\* the arm of b'"': the quote goes back into the stream
unput_quote(lx) == [lx EXCEPT !.current = ch.dquote, !.offset = @ - 1]

\* the match on the first byte c of a token, read by lx
lex_token(lx, c) ==
  CASE c \in DOMAIN Punctuation -> Parsed(lx, Token(Punctuation[c], <<>>))
    [] c \in DOMAIN Operators -> operator_token(peek(lx).lx, c, peeked(lx))
    [] c = ch.dot -> dot_token(peek(lx).lx, peeked(lx))
    [] is_ascii_digit(c) -> parse_num(lx, c)
    [] is_id_byte(c) /\ ~is_ascii_digit(c) -> parse_id(lx, c)
    [] c = ch.quote -> parse_char(lx)
    [] c = ch.dquote -> parse_string(unput_quote(lx))
    [] OTHER -> Failed(lx, <<"unknown token", c>>)

\* a variant of the flag update that counts every token
seen_any_token(seen, data) == TRUE

\* self.seen_line_token |= data != Token::Hash
seen_token(seen, data) == seen \/ data.t # "Hash"

\* the item built from the outcome of the match, with its location
located(r, span_start) ==
  IF r.ok
  THEN [item |-> Item(TRUE, r.v, span(r.lx, span_start)),
        lx   |-> [r.lx EXCEPT !.seen_line_token = seen_token(@, r.v)]]
  ELSE [item |-> Item(FALSE, LexGeneric(r.msg), span(r.lx, span_start)), lx |-> r.lx]

\* the closure of c.and_then: n is the result of the last next_char
and_then(n) ==
  IF n.c = NoByte THEN [item |-> NoItem, lx |-> n.lx]
  ELSE located(lex_token(n.lx, n.c), n.lx.offset - 1)

\* the second loop of next: comments.  It stops at the result of next_char
\* that starts a token, or returns the error of an unterminated comment
Stopped(n) == [c |-> n.c, lx |-> n.lx, returned |-> FALSE, item |-> NoItem]
RECURSIVE skip_comments(_)
after_multi_comment(r) ==
  IF ~r.ok THEN [c |-> NoByte, lx |-> r.lx, returned |-> TRUE, item |-> r.err]
  ELSE skip_comments(next_char(consume_whitespace(r.lx)))
comment_start(n, second) ==
  IF second = ch.slash
  THEN skip_comments(next_char(consume_whitespace(consume_line_comment(n.lx))))
  ELSE IF second = ch.star
  THEN after_multi_comment(consume_multi_comment(next_char(n.lx).lx))
  ELSE Stopped(n)
skip_comments(n) ==
  IF n.c = ch.slash THEN comment_start([n EXCEPT !.lx = peek(n.lx).lx], peeked(n.lx))
  ELSE Stopped(n)

\* the first loop of next: backslashes before newlines.  It stops at the
\* result of next_char that is no backslash before a newline
RECURSIVE skip_continuations(_)
continuation(n, m) ==
  IF m.ok THEN skip_continuations(next_char(consume_whitespace(m.lx)))
  ELSE [n EXCEPT !.lx = m.lx]
skip_continuations(n) ==
  IF n.c = ch.backslash THEN continuation(n, match_next(n.lx, ch.nl)) ELSE n

\* next after its loops: the early return of the comment loop, or the token
next_item(s) ==
  IF s.returned THEN [item |-> s.item, lx |-> s.lx] ELSE and_then(s)

\* Iterator::next: the item (NoItem for None) and the lexer left behind
next(lx) ==
  next_item(skip_comments(skip_continuations(next_char(consume_whitespace(lx)))))

(***************************************************************************)
(* The inputs of the lexer: every text of up to MaxLen bytes over Alphabet *)
(* and of up to MaxShort bytes over the wider Symbols, block comments with *)
(* a body of up to MaxLen bytes, and character literals with a hexadecimal *)
(* or octal escape of up to MaxDigits digits.                              *)
(***************************************************************************)
MaxLen == 3
MaxShort == 2
MaxDigits == 4
\* calls of next after the one that returned None
MaxNones == 2

Alphabet ==
  {ch.slash, ch.star, ch.backslash, ch.nl, ch.space, ch.a, ch.quote, ch.dquote, ch.zero,
   ch.dot}
Symbols ==
  Alphabet \cup {ch.hash, ch.plus, ch.eq, ch.gt, ch.x, ch.e, ch.f, ch.l, ch.u, ch.at,
                 ch.semi, ch.nine, 49, 195}

RECURSIVE Texts(_, _)
\* the texts of exactly n bytes over the set bytes
Texts(bytes, n) ==
  IF n = 0 THEN {<<>>} ELSE {<<c>> \o t : c \in bytes, t \in Texts(bytes, n - 1)}
TextsUpTo(bytes, n) == UNION {Texts(bytes, k) : k \in 0..n}

CommentInputs ==
  {prefix \o <<ch.slash, ch.star>> \o body :
     prefix \in {<<>>, <<ch.a>>, <<ch.space>>, <<ch.a, ch.nl>>},
     body \in TextsUpTo({ch.star, ch.slash, ch.a, ch.nl}, MaxLen)}
EscapeInputs ==
  {<<ch.quote, ch.backslash>> \o esc \o tail :
     esc \in {<<ch.x>> \o digits : digits \in TextsUpTo({ch.zero, ch.f, 49}, MaxDigits)}
                  \cup (TextsUpTo({ch.zero, 55, 49}, MaxDigits) \ {<<>>}),
     tail \in {<<ch.quote>>, <<ch.quote, ch.nl>>, <<>>}}
\* digits of a decimal integer above u64::MAX = 18446744073709551615
OverflowDigits == 20
\* lexemes that are lex errors: an unknown byte, malformed numbers, an
\* integer that overflows u64, bad character literals
BadLexemes ==
  {<<ch.at>>, <<195>>, <<ch.zero, ch.x>>, <<ch.zero, ch.b>>, <<49, ch.e>>,
   <<ch.zero, ch.nine>>, <<ch.quote, ch.quote>>, <<ch.quote, ch.a, ch.a, ch.quote>>,
   [i \in 1..OverflowDigits |-> ch.nine]}
\* a bad lexeme and then well-formed tokens
ResumeInputs ==
  {bad \o rest : bad \in BadLexemes,
                 rest \in {<<ch.space, ch.a>>, <<ch.semi, ch.a>>, <<ch.nl, ch.plus, ch.space, ch.a>>}}
\* a backslash and a newline between two pieces of text
Pieces ==
  {<<ch.plus>>, <<ch.eq>>, <<ch.gt>>, <<ch.gt, ch.gt>>, <<ch.a>>, <<49>>, <<ch.dot>>,
   <<ch.slash, ch.star, ch.star, ch.slash>>, <<ch.space>>}
ContinuationInputs ==
  {x \o <<ch.backslash, ch.nl>> \o y : x \in Pieces \cup {<<>>}, y \in Pieces}
\* a '#' after the end of a line, or on the line of another token
LineInputs ==
  {first \o gap \o <<ch.hash>> \o rest :
     first \in {<<>>, <<ch.a>>, <<ch.semi>>, <<ch.hash>>, <<ch.at>>, <<ch.dquote, ch.dquote>>,
                <<ch.dquote, ch.a, ch.dquote>>, <<ch.quote, ch.a, ch.quote>>,
                <<ch.dquote, ch.dquote, ch.nl, ch.dquote, ch.dquote>>},
     gap \in {<<>>, <<ch.space>>, <<ch.nl>>, <<ch.space, ch.nl>>, <<ch.nl, ch.space>>,
              <<ch.backslash, ch.nl>>},
     rest \in {<<>>, <<ch.a>>}}
LexInputs ==
  TextsUpTo(Alphabet, MaxLen) \cup TextsUpTo(Symbols, MaxShort)
    \cup CommentInputs \cup EscapeInputs \cup ResumeInputs \cup ContinuationInputs
    \cup LineInputs

(***************************************************************************)
(* The state machines.  The folder: an expression is parsed, folded, and   *)
(* the result (when there is one) is folded once more.  The lexer: next is *)
(* called until it has returned None MaxNones times.  Each machine leaves  *)
(* the variables of the other one alone.                                   *)
(***************************************************************************)
VARIABLES
  expr,      \* the expression handed to const_fold
  folded,    \* what const_fold(expr) returned
  refolded,  \* what const_fold returned for the folded expression
  pc,        \* "parsed", "folded" or "refolded"; "lexing" for the lexer
  lexer,     \* the Lexer
  items,     \* the items next has returned so far
  nones,     \* how many times next has returned None
  driver,    \* a run of main: the options, the stages, what compile returned
  handler,   \* an ErrorHandler and the value the last recover returned
  scope,     \* a Scope and the frames saved at each enter_scope
  parser,    \* the parser of statements: its scope stack and its input
  layout,    \* a struct type handed to the backend
  cpp        \* the conditional stack of the preprocessor and its errors

vars ==
  <<expr, folded, refolded, pc, lexer, items, nones, driver, handler, scope, parser,
    layout, cpp>>
\* the variables of each machine
foldVars == <<expr, folded, refolded>>
lexVars == <<lexer, items, nones>>
\* a machine that is not running
Idle == [pc |-> "idle"]

NoResult == [st |-> "none", v |-> <<>>, err |-> NoErr]

InitFold ==
  /\ expr \in FoldInputs
  /\ folded = NoResult
  /\ refolded = NoResult
  /\ pc = "parsed"
  /\ lexer = Lexer(<<>>)
  /\ items = <<>>
  /\ nones = 0
  /\ driver = Idle /\ handler = Idle /\ scope = Idle /\ parser = Idle /\ layout = Idle
  /\ cpp = Idle

\* expr.const_fold()
Fold ==
  /\ pc = "parsed"
  /\ folded' = const_fold(expr)
  /\ pc' = "folded"
  /\ UNCHANGED <<expr, refolded, lexVars, driver, handler, scope, parser, layout, cpp>>

\* folded.const_fold(), when the first fold returned an expression
Refold ==
  /\ pc = "folded"
  /\ folded.st = "ok"
  /\ refolded' = const_fold(folded.v)
  /\ pc' = "refolded"
  /\ UNCHANGED <<expr, folded, lexVars, driver, handler, scope, parser, layout, cpp>>

NextFold == Fold \/ Refold

SpecFold == InitFold /\ [][NextFold]_vars

\* Lexer::new(file, chars)
InitLex ==
  /\ lexer \in {Lexer(chars) : chars \in LexInputs}
  /\ items = <<>>
  /\ nones = 0
  /\ pc = "lexing"
  /\ expr = One
  /\ folded = NoResult
  /\ refolded = NoResult
  /\ driver = Idle /\ handler = Idle /\ scope = Idle /\ parser = Idle /\ layout = Idle
  /\ cpp = Idle

\* what a call of next leaves behind
Returned(r) ==
  /\ lexer' = r.lx
  /\ items' = IF r.item.data.t = "None" THEN items ELSE Append(items, r.item)
  /\ nones' = IF r.item.data.t = "None" THEN nones + 1 ELSE nones

\* lexer.next()
IteratorNext ==
  /\ pc = "lexing"
  /\ nones < MaxNones
  /\ Returned(next(lexer))
  /\ UNCHANGED <<foldVars, pc, driver, handler, scope, parser, layout, cpp>>

NextLex == IteratorNext

SpecLex == InitLex /\ [][NextLex]_vars

(***************************************************************************)
(* The driver: compile joins the diagnostics of the stages, main prints    *)
(* them.  A diagnostic is its location and the pass that reported it.  A   *)
(* stage reads the source forwards, so its own queue is in the order of    *)
(* the locations; the errors of first_token lie before the first token,    *)
(* at location 0, and everything the parser reports lies after it.         *)
(***************************************************************************)
\* the length of the parser's error queue, and the last location
MaxErrs == 2
MaxLoc == 2

PassRank == [lex |-> 1, parse |-> 2, semantic |-> 3, codegen |-> 4]
Diag(location, pass) == [location |-> location, pass |-> pass]
\* eof().error(SemanticError::EmptyProgram): the end of the source
EmptyProgram == Diag(MaxLoc + 1, "semantic")

\* d comes no later than e: by location, then by pass
InOrder(d, e) ==
  \/ d.location < e.location
  \/ d.location = e.location /\ PassRank[d.pass] <= PassRank[e.pass]
Ordered(queue) ==
  \A i \in 1..(Len(queue) - 1) : InOrder(queue[i], queue[i + 1])
\* the queues of up to n diagnostics a stage can hold
Queues(diags, n) ==
  {queue \in UNION {[1..k -> diags] : k \in 0..n} : Ordered(queue)}
DiagsOf(passes, from) == {Diag(l, pass) : l \in from..MaxLoc, pass \in passes}

\* what the stages hand to compile.  Without a first token the parser does
\* not run, and with an error the code generator does not
Stages ==
  {st \in [first           : BOOLEAN,
           first_errs      : Queues(DiagsOf({"lex"}, MaxLoc), 1),
           hir_empty       : BOOLEAN,
           parse_errors    : Queues(DiagsOf({"lex", "parse", "semantic"}, 1), MaxErrs),
           parser_warnings : Queues(DiagsOf({"parse"}, 1), 1),
           cpp_warnings    : Queues(DiagsOf({"lex"}, 0), 1),
           ir_warnings     : Queues(DiagsOf({"codegen"}, 1), 1),
           ir_error        : BOOLEAN] :
     /\ \A i \in 1..Len(st.first_errs) : st.first_errs[i].location = 0
     /\ ~st.first =>
          /\ st.hir_empty /\ st.parse_errors = <<>> /\ st.parser_warnings = <<>>
     /\ (~st.first \/ st.hir_empty \/ st.first_errs # <<>> \/ st.parse_errors # <<>>) =>
          /\ st.ir_warnings = <<>> /\ ~st.ir_error}

\* (Result<Product, Error>, VecDeque<CompileWarning>)
Compiled(ok, errs, warnings) == [ok |-> ok, errs |-> errs, warnings |-> warnings]

\* compile, from ir::compile on
compile_ir(st, warnings) ==
  IF st.ir_error
  THEN Compiled(FALSE, <<Diag(MaxLoc, "codegen")>>, warnings \o st.ir_warnings)
  ELSE Compiled(TRUE, <<>>, warnings \o st.ir_warnings)

\* compile, once the errors of the parser have joined errs
compile_parsed(st, errs) ==
  IF errs # <<>>
  THEN Compiled(FALSE, errs, st.parser_warnings \o st.cpp_warnings)
  ELSE compile_ir(st, st.parser_warnings \o st.cpp_warnings)

\* errs.push_back(eof().error(SemanticError::EmptyProgram)) when nothing came
or_empty_program(nothing, errs) ==
  IF nothing /\ errs = <<>> THEN <<EmptyProgram>> ELSE errs

\* compile(buf, opt): opt.max_errors is not read
compile(st, opt) ==
  IF ~st.first
  THEN Compiled(FALSE, or_empty_program(TRUE, st.first_errs), st.cpp_warnings)
  ELSE compile_parsed(st, or_empty_program(st.hir_empty, st.first_errs \o st.parse_errors))

\* main, up to real_main
InitDriver ==
  /\ driver \in {[pc |-> "main", max_errors |-> max, stages |-> st,
                  result |-> Compiled(TRUE, <<>>, <<>>), printed |-> <<>>,
                  WARNINGS |-> 0, ERRORS |-> 0, too_many |-> FALSE, exit |-> 0] :
                   max \in 0..MaxErrs, st \in Stages}
  /\ expr = One /\ folded = NoResult /\ refolded = NoResult /\ pc = "driver"
  /\ lexer = Lexer(<<>>) /\ items = <<>> /\ nones = 0
  /\ handler = Idle /\ scope = Idle /\ parser = Idle /\ layout = Idle
  /\ cpp = Idle

\* aot_main: compile(buf, opt)
Compile ==
  /\ driver.pc = "main"
  /\ driver' = [driver EXCEPT !.pc = "compiled",
                              !.result = compile(driver.stages, [max_errors |-> driver.max_errors])]

\* handle_warnings(warnings)
HandleWarnings ==
  /\ driver.pc = "compiled"
  /\ driver' = [driver EXCEPT !.pc = "warned",
                              !.WARNINGS = @ + Len(driver.result.warnings)]

\* aot_main returns Ok: the product is assembled and linked
Link ==
  /\ driver.pc = "warned" /\ driver.result.ok
  /\ driver' = [driver EXCEPT !.pc = "exited"]

\* err_exit(err, max_errors): every error is printed, then the cap is looked at
ErrExit ==
  /\ driver.pc = "warned" /\ ~driver.result.ok
  /\ driver' = [driver EXCEPT !.pc = "exited",
                              !.printed = driver.result.errs,
                              !.ERRORS = @ + Len(driver.result.errs),
                              !.too_many = driver.max_errors # 0
                                             /\ driver.max_errors <= Len(driver.result.errs),
                              !.exit = 2]

\* the variables a step of this machine leaves alone
DriverFrame ==
  /\ pc = "driver"
  /\ UNCHANGED <<foldVars, pc, lexVars, handler, scope, parser, layout, cpp>>

NextDriver ==
  \/ DriverFrame /\ Compile
  \/ DriverFrame /\ HandleWarnings
  \/ DriverFrame /\ Link
  \/ DriverFrame /\ ErrExit

SpecDriver == InitDriver /\ [][NextDriver]_vars

(***************************************************************************)
(* The ErrorHandler: a queue of errors and a queue of warnings.  The       *)
(* machine calls its methods and recover in any order; pushed and popped   *)
(* remember every error that went in and came out, before and call what    *)
(* the last call found and was given.                                      *)
(***************************************************************************)
\* pushes in one run, and the length of the vector of the multi-error variant
MaxQueue == 3
MaxVec == 2

ErrorValues == {"UnterminatedComment", "pears"}
RecoverValues == {1, 42}

\* ErrorHandler::new
ErrorHandler == [errors |-> <<>>, warnings |-> <<>>]

\* a variant of push_back that puts the error at the front of the queue
push_front(h, error) == [h EXCEPT !.errors = <<error>> \o @]

push_back(h, error) == [h EXCEPT !.errors = Append(@, error)]

\* pop_front: the Option that is returned and the handler left behind
pop_front(h) ==
  IF h.errors = <<>> THEN [some |-> FALSE, v |-> "", h |-> h]
  ELSE [some |-> TRUE, v |-> Head(h.errors), h |-> [h EXCEPT !.errors = Tail(@)]]

\* ErrorHandler::warn
handler_warn(h, warning) == [h EXCEPT !.warnings = Append(@, warning)]

RECURSIVE extend(_, _)
\* ErrorHandler::extend: VecDeque::extend pushes each item of the iterator
extend(h, iter) ==
  IF iter = <<>> THEN h ELSE extend(push_back(h, Head(iter)), Tail(iter))

\* RecoverableResult<T, E>: Ok(v) or Err((e, fallback))
RecoverableOk(v) == [ok |-> TRUE, v |-> v]
RecoverableErr(e, fallback) == [ok |-> FALSE, e |-> e, fallback |-> fallback]

\* Recover::recover for RecoverableResult<T, E>
recover(r, h) ==
  IF r.ok THEN [v |-> r.v, h |-> h] ELSE [v |-> r.fallback, h |-> push_back(h, r.e)]

\* Recover::recover for RecoverableResult<T, Vec<E>>
recover_many(r, h) ==
  IF r.ok THEN [v |-> r.v, h |-> h] ELSE [v |-> r.fallback, h |-> extend(h, r.e)]

Called(op, arg) == [op |-> op, arg |-> arg, before |-> handler.h]

InitHandler ==
  /\ handler = [pc |-> "handler", h |-> ErrorHandler, pushed |-> <<>>, popped |-> <<>>,
                returned |-> 0, call |-> [op |-> "new", arg |-> 0, before |-> ErrorHandler]]
  /\ expr = One /\ folded = NoResult /\ refolded = NoResult /\ pc = "handler"
  /\ lexer = Lexer(<<>>) /\ items = <<>> /\ nones = 0
  /\ driver = Idle /\ scope = Idle /\ parser = Idle /\ layout = Idle
  /\ cpp = Idle

\* error_handler.push_back(error)
PushBack ==
  \E error \in ErrorValues :
    /\ Len(handler.pushed) < MaxQueue
    /\ handler' = [handler EXCEPT !.h = push_back(@, error),
                                  !.pushed = Append(@, error),
                                  !.call = Called("push_back", error)]

\* error_handler.pop_front(), and Iterator::next, which is pop_front
PopFront ==
  /\ handler' = [handler EXCEPT !.h = pop_front(@).h,
                                !.popped = IF pop_front(handler.h).some
                                           THEN Append(@, pop_front(handler.h).v) ELSE @,
                                !.call = Called("pop_front", 0)]

\* error_handler.warn(warning, location)
Warn ==
  /\ Len(handler.h.warnings) < MaxVec
  /\ handler' = [handler EXCEPT !.h = handler_warn(@, "warning"),
                                !.call = Called("warn", 0)]

\* r.recover(&mut error_handler) for r: RecoverableResult<i32>
RecoverOne ==
  \E r \in {RecoverableOk(v) : v \in RecoverValues}
             \cup {RecoverableErr(e, v) : e \in ErrorValues, v \in RecoverValues} :
    /\ Len(handler.pushed) < MaxQueue
    /\ handler' = [handler EXCEPT !.h = recover(r, @).h,
                                  !.returned = recover(r, handler.h).v,
                                  !.pushed = IF r.ok THEN @ ELSE Append(@, r.e),
                                  !.call = Called("recover", r)]

\* r.recover(&mut error_handler) for r: RecoverableResult<i32, Vec<CompileError>>
RecoverMany ==
  \E r \in {RecoverableOk(v) : v \in RecoverValues}
             \cup {RecoverableErr(es, v) :
                     es \in UNION {[1..k -> ErrorValues] : k \in 0..MaxVec},
                     v \in RecoverValues} :
    /\ Len(handler.pushed) < MaxQueue
    /\ handler' = [handler EXCEPT !.h = recover_many(r, @).h,
                                  !.returned = recover_many(r, handler.h).v,
                                  !.pushed = IF r.ok THEN @ ELSE @ \o r.e,
                                  !.call = Called("recover_many", r)]

\* the variables a step of this machine leaves alone
HandlerFrame ==
  /\ pc = "handler"
  /\ UNCHANGED <<foldVars, pc, lexVars, driver, scope, parser, layout, cpp>>

NextHandler ==
  \/ HandlerFrame /\ PushBack
  \/ HandlerFrame /\ PopFront
  \/ HandlerFrame /\ Warn
  \/ HandlerFrame /\ RecoverOne
  \/ HandlerFrame /\ RecoverMany

SpecHandler == InitHandler /\ [][NextHandler]_vars

(***************************************************************************)
(* The Scope: a vector of maps, the global one first.  A map is a function *)
(* from the names to their binding, Absent for a name it does not hold.    *)
(* The machine calls the methods in any order; saved remembers the frames  *)
(* each enter_scope found, call what the last call found and was given.    *)
(***************************************************************************)
\* frames a run opens on top of the global one, and the last binding
MaxFrames == 2
MaxBinding == 2

Names == {"x", "y"}
Absent == 0
Bindings == 1..MaxBinding

\* HashMap::new()
HashMapNew == [name \in Names |-> Absent]

\* Scope::new
ScopeNew == <<HashMapNew>>

enter_scope(frames) == Append(frames, HashMapNew)

\* self.0.pop(): nothing happens to an empty vector
leave_scope(frames) ==
  IF frames = <<>> THEN frames ELSE SubSeq(frames, 1, Len(frames) - 1)

RECURSIVE get_outermost(_, _, _)
\* a variant of get that walks the frames from the global one
get_outermost(frames, name, i) ==
  IF i > Len(frames) THEN Absent
  ELSE IF frames[i][name] # Absent THEN frames[i][name]
  ELSE get_outermost(frames, name, i + 1)

\* a variant of get that returns the outermost binding
get_outermost_binding(frames, name) == get_outermost(frames, name, 1)

RECURSIVE get_from(_, _, _)
\* for map in self.0.iter().rev(): the frames from the i-th down
get_from(frames, name, i) ==
  IF i < 1 THEN Absent
  ELSE IF frames[i][name] # Absent THEN frames[i][name]
  ELSE get_from(frames, name, i - 1)

\* Scope::get
get_binding(frames, name) == get_from(frames, name, Len(frames))

\* Scope::insert: self.0.last_mut().unwrap().insert(key, value)
insert(frames, key, value) ==
  [frames EXCEPT ![Len(frames)] = [@ EXCEPT ![key] = value]]

depth(frames) == Len(frames)
is_global(frames) == Len(frames) = 1

ScopeCall(op, key) ==
  [op |-> op, key |-> key, before |-> scope.frames,
   opened |-> IF scope.saved = <<>> THEN <<>> ELSE scope.saved[Len(scope.saved)]]

InitScope ==
  /\ scope = [pc |-> "scope", frames |-> ScopeNew, saved |-> <<>>, returned |-> Absent,
              panicked |-> FALSE,
              call |-> [op |-> "new", key |-> "x", before |-> ScopeNew, opened |-> <<>>]]
  /\ expr = One /\ folded = NoResult /\ refolded = NoResult /\ pc = "scope"
  /\ lexer = Lexer(<<>>) /\ items = <<>> /\ nones = 0
  /\ driver = Idle /\ handler = Idle /\ parser = Idle /\ layout = Idle
  /\ cpp = Idle

\* scope.enter_scope()
EnterScope ==
  /\ ~scope.panicked
  /\ Len(scope.frames) <= MaxFrames
  /\ scope' = [scope EXCEPT !.frames = enter_scope(@),
                            !.saved = Append(@, scope.frames),
                            !.call = ScopeCall("enter_scope", "x")]

\* scope.leave_scope()
LeaveScope ==
  /\ ~scope.panicked
  /\ scope' = [scope EXCEPT !.frames = leave_scope(@),
                            !.saved = IF @ = <<>> THEN @ ELSE SubSeq(@, 1, Len(@) - 1),
                            !.call = ScopeCall("leave_scope", "x")]

\* scope.insert(key, value): unwrap panics when there is no frame
Insert ==
  \E key \in Names, value \in Bindings :
    /\ ~scope.panicked
    /\ scope' = IF scope.frames = <<>>
                THEN [scope EXCEPT !.panicked = TRUE, !.call = ScopeCall("insert", key)]
                ELSE [scope EXCEPT !.frames = insert(@, key, value),
                                   !.call = ScopeCall("insert", key)]

\* scope.get(name): without a frame the debug_assert panics in a debug
\* build, and a release build finds nothing
Get ==
  \E name \in Names, debug \in BOOLEAN :
    /\ ~scope.panicked
    /\ scope' = IF scope.frames = <<>> /\ debug
                THEN [scope EXCEPT !.panicked = TRUE, !.call = ScopeCall("get", name)]
                ELSE [scope EXCEPT !.returned = get_binding(scope.frames, name),
                                   !.call = ScopeCall("get", name)]

\* the variables a step of this machine leaves alone
ScopeFrame ==
  /\ pc = "scope"
  /\ UNCHANGED <<foldVars, pc, lexVars, driver, handler, parser, layout, cpp>>

NextScope ==
  \/ ScopeFrame /\ EnterScope
  \/ ScopeFrame /\ LeaveScope
  \/ ScopeFrame /\ Insert
  \/ ScopeFrame /\ Get

SpecScope == InitScope /\ [][NextScope]_vars

(***************************************************************************)
(* The parser of statements.  The input is a sequence of tokens: "e" is    *)
(* the tokens of one expression, every other token is itself.  A parser is *)
(* the tokens left, the frames of its Scope, and ok, FALSE once a call     *)
(* returned Err: every call made after that is skipped, as the ? operator  *)
(* skips the rest of a function.                                           *)
(***************************************************************************)
\* tokens of an input, and calls of statement in a run
MaxTokens == 7
MaxCalls == 2

Tokens == {"{", "}", "for", "while", "(", ")", ";", "e"}
EOF == "<end-of-file>"

peek_token(p) == IF p.tokens = <<>> THEN EOF ELSE Head(p.tokens)
next_token(p) == [p EXCEPT !.tokens = IF @ = <<>> THEN @ ELSE Tail(@)]
\* Err(..)
SyntaxErr(p) == [p EXCEPT !.ok = FALSE]

\* Parser::expect(token)?
expect(p, token) ==
  IF ~p.ok THEN p
  ELSE IF peek_token(p) = token THEN next_token(p) ELSE SyntaxErr(p)

\* Parser::expr()?
parse_expr(p) == expect(p, "e")

\* Parser::expr_opt(token)?: nothing but the token, or an expression and
\* then the token
expr_opt(p, token) ==
  IF ~p.ok THEN p
  ELSE IF peek_token(p) = token THEN next_token(p)
  ELSE expect(parse_expr(p), token)

\* Parser::enter_scope
parser_enter_scope(p) == [p EXCEPT !.frames = enter_scope(@)]
\* Parser::leave_scope
parser_leave_scope(p) == [p EXCEPT !.frames = leave_scope(@)]
\* self.leave_scope(..) after calls made with ?: reached when none of them
\* returned Err
leave_scope_on_ok(p) == IF p.ok THEN parser_leave_scope(p) ELSE p

\* Parser::expression_statement
expression_statement(p) == expect(parse_expr(p), ";")

RECURSIVE statement(_)

RECURSIVE compound_statements(_)
\* while self.peek_token() != Some(&Token::RightBrace) { self.statement()? }
\* and then the expect of the brace
compound_statements(p) ==
  IF ~p.ok THEN p
  ELSE IF peek_token(p) = "}" THEN next_token(p)
  ELSE compound_statements(statement(p))

\* Parser::compound_statement, called with the brace as the next token
compound_statement(p) == compound_statements(expect(p, "{"))

\* Parser::while_statement
while_statement(p) ==
  statement(expect(parse_expr(expect(expect(p, "while"), "(")), ")"))

\* for_statement from its first clause: the clause, the two expr_opt, the
\* body, and leave_scope when all of them returned Ok
for_clauses(p) ==
  IF peek_token(p) = EOF THEN SyntaxErr(p)
  ELSE leave_scope_on_ok(statement(expr_opt(expr_opt(expr_opt(p, ";"), ";"), ")")))

\* for_statement after its two expect: enter_scope and the clauses
for_scope(p) == IF ~p.ok THEN p ELSE for_clauses(parser_enter_scope(p))

\* Parser::for_statement
for_statement(p) == for_scope(expect(expect(p, "for"), "("))

\* Parser::statement: the arm of the left brace leaves the scope whatever
\* compound_statement returned
statement(p) ==
  IF ~p.ok THEN p
  ELSE IF peek_token(p) = "{"
       THEN parser_leave_scope(compound_statement(parser_enter_scope(p)))
  ELSE IF peek_token(p) = "for" THEN for_statement(p)
  ELSE IF peek_token(p) = "while" THEN while_statement(p)
  ELSE IF peek_token(p) = ";" THEN next_token(p)
  ELSE expression_statement(p)

\* the statements the inputs are cut from
Statements ==
  { <<"for", "(", "e", ";", "e", ";", "e", ")", "e", ";">>,
    <<"{", "for", "(", ";", ";", ")", ";", "}", "e", ";">>,
    <<"for", "(", ";", ";", ")", "{", "e", ";", "}", ";">>,
    <<"{", "e", ";", "{", "e", ";", "}", "}", ";", ";">>,
    <<"while", "(", "e", ")", "{", "e", ";", "}", "e", ";">>,
    <<"while", "(", "e", ")", "for", "(", ";", ";", ")", ";">>,
    <<"{", "{", "for", "(", ";", ";", ")", "{", "}", "}">>,
    <<"{", "e", ";", "e", ";", "}", "e", ";">> }

\* a statement cut after n tokens
Cut(tokens, n) == SubSeq(tokens, 1, IF n < Len(tokens) THEN n ELSE Len(tokens))
\* the same with the i-th token replaced
Replaced(tokens, i, token) == [tokens EXCEPT ![i] = token]

\* the inputs: each statement cut anywhere, whole or with one token wrong
ParserInputs ==
  {Cut(tokens, n) : tokens \in Statements, n \in 0..MaxTokens}
    \cup UNION {{Replaced(Cut(tokens, n), i, token) : i \in 1..Len(Cut(tokens, n))} :
                  tokens \in Statements, n \in 1..MaxTokens, token \in Tokens}

\* Parser::new: the Scope is new
ParserNew(tokens) == [tokens |-> tokens, frames |-> ScopeNew, ok |-> TRUE]

InitParser ==
  /\ \E tokens \in ParserInputs :
       parser = [pc |-> "parser", p |-> ParserNew(tokens), calls |-> 0,
                 called |-> "new", entry |-> ScopeNew, input |-> tokens]
  /\ expr = One /\ folded = NoResult /\ refolded = NoResult /\ pc = "parser"
  /\ lexer = Lexer(<<>>) /\ items = <<>> /\ nones = 0
  /\ driver = Idle /\ handler = Idle /\ scope = Idle /\ layout = Idle
  /\ cpp = Idle

\* parser.statement(), as long as no call returned Err
Statement ==
  /\ parser.p.ok
  /\ parser.calls < MaxCalls
  /\ parser' = [parser EXCEPT !.p = statement(@), !.calls = @ + 1,
                              !.called = "statement", !.entry = parser.p.frames,
                              !.input = parser.p.tokens]

\* parser.compound_statement(), which its callers call at a left brace
CompoundStatement ==
  /\ parser.p.ok
  /\ parser.calls < MaxCalls
  /\ peek_token(parser.p) = "{"
  /\ parser' = [parser EXCEPT !.p = compound_statement(@), !.calls = @ + 1,
                              !.called = "compound_statement",
                              !.entry = parser.p.frames,
                              !.input = parser.p.tokens]

\* the variables a step of this machine leaves alone
ParserFrame ==
  /\ pc = "parser"
  /\ UNCHANGED <<foldVars, pc, lexVars, driver, handler, scope, layout, cpp>>

NextParser ==
  \/ ParserFrame /\ Statement
  \/ ParserFrame /\ CompoundStatement

SpecParser == InitParser /\ [][NextParser]_vars

(***************************************************************************)
(* The layout of structs in the backend.  SIZE_T is u64; the sizes of the  *)
(* inputs are far from 2^64, so only the subtraction in struct_offset can  *)
(* leave the range: a debug build panics there, a release build wraps.     *)
(***************************************************************************)
\* members of a struct, and elements of an array
MaxMembers == 2
MaxArray == 3

\* Type::Array(t, ArrayType::Fixed(len))
ArrayTy(elem, len) == [t |-> "Array", signed |-> FALSE, members |-> <<elem>>, len |-> len]
\* Symbol: of its fields the layout reads id and ctype
Symbol(id, ctype) == [id |-> id, ctype |-> ctype]
\* Type::Struct(StructType::Anonymous(symbols))
StructTy(symbols) == [t |-> "Struct", signed |-> FALSE, members |-> symbols]
\* Type::Union(StructType::Anonymous(symbols))
UnionTy(symbols) == [t |-> "Union", signed |-> FALSE, members |-> symbols]

SizeOk(n) == [ok |-> TRUE, size |-> n, msg |-> ""]

RECURSIVE type_sizeof(_)
RECURSIVE type_alignof(_)

RECURSIVE union_size_from(_, _, _)
\* try_fold(1, |n, size| Ok(max(n, size?))) from the i-th symbol
union_size_from(symbols, i, n) ==
  IF i > Len(symbols) THEN SizeOk(n)
  ELSE IF ~type_sizeof(symbols[i].ctype).ok THEN type_sizeof(symbols[i].ctype)
  ELSE union_size_from(symbols, i + 1,
         IF type_sizeof(symbols[i].ctype).size > n
         THEN type_sizeof(symbols[i].ctype).size ELSE n)

union_size(symbols) == union_size_from(symbols, 1, 1)

RECURSIVE struct_size_from(_, _, _)
\* try_fold(0, |n, size| Ok(n + size?)) from the i-th symbol
struct_size_from(symbols, i, n) ==
  IF i > Len(symbols) THEN SizeOk(n)
  ELSE IF ~type_sizeof(symbols[i].ctype).ok THEN type_sizeof(symbols[i].ctype)
  ELSE struct_size_from(symbols, i + 1, n + type_sizeof(symbols[i].ctype).size)

struct_size(symbols) == struct_size_from(symbols, 1, 0)

RECURSIVE struct_align_from(_, _, _)
\* try_fold(0, |max, member| Ok(max(member.ctype.alignof()?, max)))
struct_align_from(members, i, max) ==
  IF i > Len(members) THEN SizeOk(max)
  ELSE IF ~type_alignof(members[i].ctype).ok THEN type_alignof(members[i].ctype)
  ELSE struct_align_from(members, i + 1,
         IF type_alignof(members[i].ctype).size > max
         THEN type_alignof(members[i].ctype).size ELSE max)

struct_align(members) == struct_align_from(members, 1, 0)

\* t.sizeof().and_then(|n| Ok(n * l))
array_size(elem, len) == IF elem.ok THEN SizeOk(elem.size * len) ELSE elem

\* Type::sizeof with the arms of arrays, structs and unions
type_sizeof(ty) ==
  CASE ty.t = "Array"  -> array_size(type_sizeof(ty.members[1]), ty.len)
    [] ty.t = "Struct" -> struct_size(ty.members)
    [] ty.t = "Union"  -> union_size(ty.members)
    [] OTHER           -> sizeof(ty)

\* Type::alignof
type_alignof(ty) ==
  CASE ty.t = "Array"  -> type_alignof(ty.members[1])
    [] ty.t = "Struct" -> struct_align(ty.members)
    [] ty.t \in {"Function", "Void", "VaList"} ->
         [ok |-> FALSE, size |-> 0, msg |-> "cannot take alignof"]
    [] OTHER           -> type_sizeof(ty)

\* 2^64 % n, for the n of the inputs
Squared(r, n) == (r * r) % n
TwoTo64Rem(n) == Squared(Squared(65536 % n, n), n)

Offset(n) == [ok |-> TRUE, offset |-> n]
OffsetPanic == [ok |-> FALSE, offset |-> 0]

\* (align - size) % align in u64: None where a debug build panics
padding(size, align, build) ==
  IF align >= size THEN Offset((align - size) % align)
  ELSE IF build = "debug" THEN OffsetPanic
  ELSE Offset((TwoTo64Rem(align) + align - (size % align)) % align)

\* size after `if size % align != 0 { size += (align - size) % align; }`
round_up(size, align, build) ==
  IF size % align = 0 THEN Offset(size)
  ELSE IF padding(size, align, build).ok
       THEN Offset(size + padding(size, align, build).offset)
  ELSE OffsetPanic

RECURSIVE struct_offset_from(_, _, _, _, _, _)
\* the loop of struct_offset from the i-th member; the two expect and the
\* unreachable! panic
struct_offset_from(self, members, member, build, i, current_offset) ==
  IF i > Len(members) THEN OffsetPanic
  ELSE IF members[i].id = member THEN Offset(current_offset)
  ELSE IF ~type_sizeof(members[i].ctype).ok \/ ~type_alignof(self).ok THEN OffsetPanic
  ELSE IF ~round_up(type_sizeof(members[i].ctype).size, type_alignof(self).size, build).ok
       THEN OffsetPanic
  ELSE struct_offset_from(self, members, member, build, i + 1,
         current_offset
           + round_up(type_sizeof(members[i].ctype).size,
                      type_alignof(self).size, build).offset)

\* Type::struct_offset
struct_offset(self, members, member, build) ==
  struct_offset_from(self, members, member, build, 1, 0)

Char == Ty("Char", TRUE)
\* the types of the members: scalars, arrays, a struct, unions
MemberTypes ==
  {Char, Ty("Short", TRUE), Ty("Int", TRUE), Ty("Long", TRUE)}
    \cup {ArrayTy(Char, len) : len \in 1..MaxArray}
    \cup {UnionTy(<<Symbol(1, ArrayTy(Char, len))>>) : len \in 1..MaxArray}
    \cup {StructTy(<<Symbol(1, Char), Symbol(2, Ty("Short", TRUE))>>)}

\* the members of the structs: the id of a member is its place
MemberLists ==
  UNION {[1..n -> MemberTypes] : n \in 1..MaxMembers}
StructSymbols(types) == [i \in 1..Len(types) |-> Symbol(i, types[i])]

NoSize == [ok |-> FALSE, size |-> 0, msg |-> "not called"]

InitLayout ==
  /\ \E types \in MemberLists, build \in {"debug", "release"} :
       layout = [pc |-> "layout", ty |-> StructTy(StructSymbols(types)), build |-> build,
                 offsets |-> <<>>, size |-> NoSize]
  /\ expr = One /\ folded = NoResult /\ refolded = NoResult /\ pc = "layout"
  /\ lexer = Lexer(<<>>) /\ items = <<>> /\ nones = 0
  /\ driver = Idle /\ handler = Idle /\ scope = Idle /\ parser = Idle
  /\ cpp = Idle

Panicked == \E i \in 1..Len(layout.offsets) : ~layout.offsets[i].ok

\* ty.struct_offset(members, member) for the next member of the struct
StructOffset ==
  /\ ~Panicked
  /\ Len(layout.offsets) < Len(layout.ty.members)
  /\ layout' = [layout EXCEPT !.offsets =
                  Append(@, struct_offset(layout.ty, layout.ty.members,
                                          Len(layout.offsets) + 1, layout.build))]

\* ty.sizeof()
Sizeof ==
  /\ ~Panicked
  /\ layout.size = NoSize
  /\ layout' = [layout EXCEPT !.size = type_sizeof(layout.ty)]

LayoutFrame ==
  /\ pc = "layout"
  /\ UNCHANGED <<foldVars, pc, lexVars, driver, handler, scope, parser, cpp>>

NextLayout ==
  \/ LayoutFrame /\ StructOffset
  \/ LayoutFrame /\ Sizeof

SpecLayout == InitLayout /\ [][NextLayout]_vars

(***************************************************************************)
(* The conditional stack of the preprocessor.  Its frames carry            *)
(* currently-taking, has-taken-any-branch and seen-else; a directive that  *)
(* is an error is reported and abandoned, the stack as it was.             *)
(***************************************************************************)
MaxIfs == 2
MaxCppErrs == 2

\* the values an #if or #elif expression folds to
IfValues == {0, 1, 2}

\* CppError
UnexpectedEndIf == [kind |-> "UnexpectedEndIf", early |-> FALSE]
UnexpectedElse == [kind |-> "UnexpectedElse", early |-> FALSE]
UnexpectedElif(early) == [kind |-> "UnexpectedElif", early |-> early]

\* the frame #ifdef and #if push: (present, present, false); branches
\* counts the branches of the chain that were taken
if_frame(present) ==
  [taking |-> present, taken |-> present, seen_else |-> FALSE,
   branches |-> IF present THEN 1 ELSE 0]

\* a frame that starts a branch, taken or not
branch(frame, taking) ==
  [frame EXCEPT !.taking = taking, !.taken = @ \/ taking,
                !.branches = IF taking THEN @ + 1 ELSE @]

\* #elif on an open frame: evaluated when the frame is not taking and has
\* not taken; a frame that has taken stops taking
elif_frame(frame, value) ==
  IF ~frame.taking /\ ~frame.taken THEN branch(frame, value # 0)
  ELSE branch(frame, FALSE)

\* a variant of else_frame that inverts currently-taking whatever was taken
else_inverting(frame) ==
  [branch(frame, ~frame.taking) EXCEPT !.seen_else = TRUE]

\* #else on an open frame: currently-taking inverted only if nothing has
\* been taken; seen-else set
else_frame(frame) ==
  [branch(frame, IF ~frame.taken THEN ~frame.taking ELSE FALSE)
     EXCEPT !.seen_else = TRUE]

\* the stack with its top frame replaced
with_top(nested_ifs, frame) == [nested_ifs EXCEPT ![Len(nested_ifs)] = frame]
top(nested_ifs) == nested_ifs[Len(nested_ifs)]

\* the directive is reported and abandoned
cpp_error(c, err) == [c EXCEPT !.errors = Append(@, err)]

\* #if and #ifdef
if_directive(c, present) ==
  [c EXCEPT !.nested_ifs = Append(@, if_frame(present))]

\* #elif: an error if the stack is empty, and after #else
elif_directive(c, value) ==
  IF c.nested_ifs = <<>> THEN cpp_error(c, UnexpectedElif(TRUE))
  ELSE IF top(c.nested_ifs).seen_else THEN cpp_error(c, UnexpectedElif(FALSE))
  ELSE [c EXCEPT !.nested_ifs = with_top(@, elif_frame(top(@), value))]

\* #else: an error if already seen or the stack is empty
else_directive(c) ==
  IF c.nested_ifs = <<>> THEN cpp_error(c, UnexpectedElse)
  ELSE IF top(c.nested_ifs).seen_else THEN cpp_error(c, UnexpectedElse)
  ELSE [c EXCEPT !.nested_ifs = with_top(@, else_frame(top(@)))]

\* #endif: pop; an error if the stack is empty
endif_directive(c) ==
  IF c.nested_ifs = <<>> THEN cpp_error(c, UnexpectedEndIf)
  ELSE [c EXCEPT !.nested_ifs = SubSeq(@, 1, Len(@) - 1)]

\* a preprocessor at the start of a file: no #if is open
InitCpp ==
  /\ cpp = [pc |-> "cpp", nested_ifs |-> <<>>, errors |-> <<>>, last |-> "none"]
  /\ expr = One /\ folded = NoResult /\ refolded = NoResult /\ pc = "cpp"
  /\ lexer = Lexer(<<>>) /\ items = <<>> /\ nones = 0
  /\ driver = Idle /\ handler = Idle /\ scope = Idle /\ parser = Idle
  /\ layout = Idle

\* the step of a directive, as long as the errors are within the bound
Directive(c, name) ==
  /\ Len(c.errors) <= MaxCppErrs
  /\ cpp' = [c EXCEPT !.last = name]

\* #ifdef NAME
IfDef ==
  /\ Len(cpp.nested_ifs) < MaxIfs
  /\ \E present \in BOOLEAN : Directive(if_directive(cpp, present), "ifdef")

\* #if expr
If ==
  /\ Len(cpp.nested_ifs) < MaxIfs
  /\ \E value \in IfValues : Directive(if_directive(cpp, value # 0), "if")

\* #elif expr
Elif == \E value \in IfValues : Directive(elif_directive(cpp, value), "elif")

\* #else
Else == Directive(else_directive(cpp), "else")

\* #endif
EndIf == Directive(endif_directive(cpp), "endif")

\* the variables a step of this machine leaves alone
CppFrame ==
  /\ pc = "cpp"
  /\ UNCHANGED <<foldVars, pc, lexVars, driver, handler, scope, parser, layout>>

NextCpp ==
  \/ CppFrame /\ IfDef
  \/ CppFrame /\ If
  \/ CppFrame /\ Elif
  \/ CppFrame /\ Else
  \/ CppFrame /\ EndIf

SpecCpp == InitCpp /\ [][NextCpp]_vars

(***************************************************************************)
(* Properties of the folder.                                               *)
(***************************************************************************)
\* the exact value of an i64 / u64 and of their sums, differences and
\* products, in integers of WideBytes bytes
Wide(w) == SignExt(w, WideBytes)
WideU(w) == ZeroExt(w, WideBytes)
Low(wide) == SubSeq(wide, 1, WordBytes)
FitsI64(wide) == wide = SignExt(Low(wide), WideBytes)
ExactOp(kind, a, b) ==
  CASE kind = "Add" -> AddW(a, b)
    [] kind = "Sub" -> SubW(a, b)
    [] kind = "Mul" -> MulW(a, b)

Args == expr.expr.args
Folded == pc # "parsed"
LiteralOperands ==
  Len(Args) = 2 /\ IsLiteral(Args[1]) /\ IsLiteral(Args[2])
FoldedTo(lit) == folded.st = "ok" /\ folded.v.expr = Literal(lit)
FailedWith(data) == folded.st = "err" /\ folded.err.data = data

\* C1: Add, Sub and Mul of two Int literals fold to the exact result when it
\* fits i64 and otherwise fail with ConstOverflow, is_positive telling whether
\* the exact result is above the maximum (true) or below the minimum (false);
\* of two UnsignedInt literals they fold to the exact result modulo 2^64.
C1_CheckedArithmetic ==
  (Folded /\ expr.expr.kind \in {"Add", "Sub", "Mul"} /\ LiteralOperands) =>
    LET a == Args[1].expr.lit
        b == Args[2].expr.lit
        exact  == ExactOp(expr.expr.kind, Wide(a.val), Wide(b.val))
        exactU == ExactOp(expr.expr.kind, WideU(a.val), WideU(b.val))
    IN  /\ (a.tag = "Int" /\ b.tag = "Int") =>
             IF FitsI64(exact) THEN FoldedTo(IntLit(Low(exact)))
             ELSE FailedWith(ConstOverflow(~IsNegW(exact)))
        /\ (a.tag = "UnsignedInt" /\ b.tag = "UnsignedInt") =>
             FoldedTo(UnsignedInt(Low(exactU)))

IsZeroLiteral(e) ==
  /\ e.expr.kind = "Literal"
  /\ \/ e.expr.lit.tag \in {"Int", "UnsignedInt", "Char"}
          /\ \A j \in 1..Len(e.expr.lit.val) : e.expr.lit.val[j] = 0
     \/ e.expr.lit.tag = "Float" /\ e.expr.lit.val[1] = 0

RightFoldsToZero ==
  /\ Len(Args) = 2
  /\ LET r == const_fold(Args[2]) IN r.st = "ok" /\ IsZeroLiteral(r.v)

\* C2: a Div or Mod whose right operand folds to a zero literal fails with
\* DivideByZero whatever the left operand is, also a left operand whose own
\* folding would fail.
C2_DivideByZeroFirst ==
  (Folded /\ expr.expr.kind \in {"Div", "Mod"} /\ RightFoldsToZero) =>
    FailedWith(DivideByZero)

\* C2 happens: a division by zero whose left operand cannot be folded
C2_Witness ==
  /\ pc = "folded"
  /\ expr.expr.kind = "Div"
  /\ RightFoldsToZero
  /\ const_fold(Args[1]).st = "err"
  /\ FailedWith(DivideByZero)

\* the shift amount of a literal that is not negative
Amount(lit) == IF lit.tag = "Char" THEN FromNat(lit.val[1], WordBytes) ELSE lit.val
IsNegativeLit(lit) == lit.tag = "Int" /\ lit.val[WordBytes] >= 128
IsAmountLit(lit) == lit.tag \in {"Int", "UnsignedInt", "Char"} /\ ~IsNegativeLit(lit)
AtLeast(u, n) == ~ULess(u, FromNat(n, WordBytes))

\* C3: with a literal shift amount, a negative amount fails with NegativeShift
\* whose is_left is the direction of the shift, and a left shift of a signed
\* operand by at least CHAR_BIT * sizeof(operand type) bits fails with
\* TooManyShiftBits {is_left: true, maximum: CHAR_BIT * sizeof, current: amount}.
C3_ShiftErrors ==
  (Folded /\ expr.expr.kind = "Shift") =>
    LET l == const_fold(Args[1])
        r == const_fold(Args[2])
        is_left == expr.expr.aux = "left"
    IN  (l.st = "ok" /\ r.st = "ok" /\ IsLiteral(r.v)) =>
          LET amount  == r.v.expr.lit
              maximum == CHAR_BIT * sizeof(l.v.ctype).size
          IN  /\ IsNegativeLit(amount) => FailedWith(NegativeShift(is_left))
              /\ (/\ is_left /\ is_signed(l.v.ctype) /\ IsAmountLit(amount)
                  /\ AtLeast(Amount(amount), maximum)) =>
                   /\ folded.st = "err"
                   /\ folded.err.data.kind = "TooManyShiftBits"
                   /\ folded.err.data.flag = TRUE
                   /\ folded.err.data.maximum = maximum
                   /\ folded.err.data.current = Amount(amount)

\* C3 happens: 1 << 65 on a long reports maximum 64, current 65
C3_Witness ==
  /\ pc = "folded"
  /\ expr.expr.kind = "Shift" /\ expr.expr.aux = "left"
  /\ Args[1].expr = Literal(IntLit(W(1)))
  /\ Args[2].expr = Literal(IntLit(W(65)))
  /\ FailedWith(TooManyShiftBits(TRUE, W(65), LongT, 64))

\* C4: a right shift, or a left shift of an unsigned literal, by a literal
\* amount s >= 0 folds to the zero literal when s is at least the bit width
\* CHAR_BIT * sizeof of the type, and to the operand shifted by exactly s bits
\* when s is smaller.
C4_ShiftSaturates ==
  (/\ Folded /\ expr.expr.kind = "Shift" /\ LiteralOperands
   /\ IsIntegerLit(Args[1]) /\ IsAmountLit(Args[2].expr.lit)
   /\ expr.expr.aux = "right" \/ Args[1].expr.lit.tag = "UnsignedInt") =>
    LET a     == Args[1].expr.lit
        s     == Amount(Args[2].expr.lit)
        width == CHAR_BIT * sizeof(expr.ctype).size
        fill  == IF a.tag = "Int" /\ IsNegW(a.val) THEN 255 ELSE 0
    IN  IF AtLeast(s, width)
        THEN folded.st = "ok" /\ IsZeroLiteral(folded.v)
        ELSE IF expr.expr.aux = "right"
        THEN FoldedTo(Lit(a.tag, ShrW(a.val, s[1], fill)))
        ELSE FoldedTo(Lit(a.tag, ShlW(a.val, s[1])))

\* C5: folding is idempotent: the fold of a folded expression succeeds and
\* returns the same tree.
C5_Idempotent ==
  pc = "refolded" => refolded.st = "ok" /\ refolded.v = folded.v

\* the constexpr flag of a node and of all nodes below it tells whether the
\* payload is a literal
RECURSIVE FlagsRight(_)
FlagsRight(e) ==
  /\ e.constexpr = (e.expr.kind = "Literal")
  /\ \A j \in 1..Len(e.expr.args) : FlagsRight(e.expr.args[j])

\* C6: in an expression returned by const_fold, the root and every
\* sub-expression is constexpr exactly when its payload is a Literal, whatever
\* the flags of the input were.
C6_ConstexprIffLiteral ==
  /\ (Folded /\ folded.st = "ok") => FlagsRight(folded.v)
  /\ (pc = "refolded" /\ refolded.st = "ok") => FlagsRight(refolded.v)

\* C6 happens: an operator node with operands came in flagged constexpr, with
\* operands flagged the wrong way, and came out of the fold an operator node
C6_Witness ==
  /\ pc = "folded" /\ folded.st = "ok"
  /\ expr.constexpr /\ ~FlagsRight(expr)
  /\ folded.v.expr.kind # "Literal"
  /\ Len(folded.v.expr.args) = 2
  /\ ~FlagsRight(Args[1])

\* the value of an integer literal lies in the range of the integral type
InRange(lit, ty) ==
  LET n    == sizeof(ty).size
      low  == SubSeq(lit.val, 1, n)
  IN  IF ty.t = "Bool" THEN lit.val \in {W(0), W(1)}
      ELSE IF lit.tag = "Int" /\ is_signed(ty) THEN lit.val = SignExt(low, WordBytes)
      ELSE IF lit.tag = "Int" THEN ~IsNegW(lit.val) /\ lit.val = ZeroExt(low, WordBytes)
      ELSE IF is_signed(ty) THEN lit.val = ZeroExt(low, WordBytes) /\ low[n] < 128
      ELSE lit.val = ZeroExt(low, WordBytes)

CastOfNumber ==
  /\ Folded /\ expr.expr.kind = "Cast"
  /\ IsLiteral(Args[1]) /\ Args[1].expr.lit.tag \in {"Int", "UnsignedInt", "Float"}
  /\ is_integral(expr.ctype)

\* C21: the cast of an integer or float literal to an integral type folds to
\* an integer literal whose value lies in the range of that type.
C21_CastClipsToRange ==
  CastOfNumber =>
    /\ folded.st = "ok" /\ IsLiteral(folded.v)
    /\ folded.v.expr.lit.tag \in {"Int", "UnsignedInt"}
    /\ InRange(folded.v.expr.lit, expr.ctype)

\* an operand that folds to a literal, zero or not
FoldsToLiteral(e) == const_fold(e).st = "ok" /\ IsLiteral(const_fold(e).v)
FoldsToZero(e) == const_fold(e).st = "ok" /\ IsZeroLiteral(const_fold(e).v)

\* C22: a LogicalAnd whose left operand folds to a zero literal folds to the
\* literal 0, and a LogicalOr whose left operand folds to a literal that is
\* not zero folds to the literal 1, whatever the right operand folds to.
C22_LogicalShortCircuit ==
  (Folded /\ Len(Args) = 2 /\ const_fold(Args[2]).st = "ok") =>
    /\ (expr.expr.kind = "LogicalAnd" /\ FoldsToZero(Args[1])) => FoldedTo(IntLit(W(0)))
    /\ (/\ expr.expr.kind = "LogicalOr"
        /\ FoldsToLiteral(Args[1]) /\ ~FoldsToZero(Args[1])
        /\ const_fold(Args[1]).v.expr.lit.tag # "Str") => FoldedTo(IntLit(W(1)))

\* the operand of a Deref folds to a zero integer literal, as it is or as
\* the literal a cast to a pointer type leaves
FoldsToNull(e) ==
  /\ FoldsToZero(e)
  /\ const_fold(e).v.expr.lit.tag \in {"Int", "UnsignedInt"}
  /\ const_fold(e).v.expr.lit.tag = "Int" \/ is_pointer(e.ctype)

\* C23: a Deref whose operand folds to a literal zero pointer fails with
\* "cannot dereference NULL pointer" and returns no expression.
C23_DerefNull ==
  (Folded /\ expr.expr.kind = "Deref" /\ FoldsToNull(Args[1])) =>
    FailedWith(Generic("cannot dereference NULL pointer"))

\* C27: a left shift that const_fold does not evaluate comes back a Shift
\* that is still a left shift, over the folded operands in their order.
C27_ShiftKeepsDirection ==
  (/\ Folded /\ expr.expr.kind = "Shift" /\ expr.expr.aux = "left"
   /\ folded.st = "ok" /\ ~IsLiteral(folded.v)) =>
    /\ folded.v.expr.kind = "Shift"
    /\ folded.v.expr.aux = "left"
    /\ folded.v.expr.args = <<const_fold(Args[1]).v, const_fold(Args[2]).v>>

\* C28: when const_fold returns a literal for an operator node, every operand
\* of the node folds to a literal; of a Ternary, the condition and the branch
\* it selects.
C28_OperandsNeverDropped ==
  (Folded /\ folded.st = "ok" /\ IsLiteral(folded.v)) =>
    IF expr.expr.kind = "Ternary"
    THEN /\ FoldsToLiteral(Args[1])
         /\ FoldsToLiteral(IF FoldsToZero(Args[1]) THEN Args[3] ELSE Args[2])
    ELSE \A j \in 1..Len(Args) : FoldsToLiteral(Args[j])

\* a left shift of an Int literal by a literal amount below the bit width
ShiftInRange ==
  /\ Folded /\ expr.expr.kind = "Shift" /\ expr.expr.aux = "left" /\ LiteralOperands
  /\ Args[1].expr.lit.tag = "Int" /\ is_signed(Args[1].ctype)
  /\ IsAmountLit(Args[2].expr.lit)
  /\ ~AtLeast(Amount(Args[2].expr.lit), CHAR_BIT * sizeof(Args[1].ctype).size)

\* C29: a left shift of a signed Int literal a by an amount s below the bit
\* width folds to a * 2^s when that fits i64, and fails with ConstOverflow
\* when it does not.
C29_ShiftLeftChecked ==
  ShiftInRange =>
    LET exact == ShlW(Wide(Args[1].expr.lit.val), Amount(Args[2].expr.lit)[1])
    IN  IF FitsI64(exact) THEN FoldedTo(IntLit(Low(exact)))
        ELSE folded.st = "err" /\ folded.err.data.kind = "ConstOverflow"

(***************************************************************************)
(* Properties of the lexer.                                                *)
(***************************************************************************)
Source == lexer.chars
\* next has returned None: the stream is complete
Exhausted == nones > 0
InSource(location) ==
  0 <= location[1] /\ location[1] < location[2] /\ location[2] <= Len(Source)
Errors(kind) == {i \in 1..Len(items) : ~items[i].ok /\ items[i].data.t = kind}

\* C7: every item the lexer yields, token or error, has a span with
\* 0 <= start < end <= source length, and the byte offset of the lexer is
\* between 0 and the source length in every state.
C7_SpansInSource ==
  /\ 0 <= lexer.offset /\ lexer.offset <= Len(Source)
  /\ \A i \in 1..Len(items) : InSource(items[i].location)

\* C7 happens: the whole source was read, next was called again at its end,
\* and the stream holds a token and an error
C7_Witness ==
  /\ Exhausted /\ nones = MaxNones
  /\ lexer.offset = Len(Source)
  /\ \E i, j \in 1..Len(items) : items[i].ok /\ ~items[j].ok

\* a block comment opens at offset s
OpenerAt(s) ==
  s + 2 <= Len(Source) /\ Source[s + 1] = ch.slash /\ Source[s + 2] = ch.star
\* the first block comment opens at offset s and is never closed; nothing
\* before it starts a comment, a literal or a continuation that could hold it
NeverEnds(s) ==
  /\ OpenerAt(s)
  /\ \A i \in 1..s : Source[i] \notin {ch.slash, ch.quote, ch.dquote, ch.backslash}
  /\ \A i \in (s + 3)..(Len(Source) - 1) : ~(Source[i] = ch.star /\ Source[i + 1] = ch.slash)
\* the stream ends with the one UnterminatedComment error, at location
EndsUnterminated(location) ==
  /\ Errors("UnterminatedComment") = {Len(items)}
  /\ items[Len(items)].location = location

Closing == IndexOf(Source, ch.quote, 2)
\* the source starts with a character literal that holds only the escape
\* \x with digits of radix 16, or only a backslash with digits of radix 8
HexEscape ==
  /\ Closing >= 5
  /\ Source[1] = ch.quote /\ Source[2] = ch.backslash /\ Source[3] = ch.x
  /\ \A i \in 4..(Closing - 1) : is_digit(Source[i], 16)
OctalEscape ==
  /\ Closing >= 4
  /\ Source[1] = ch.quote /\ Source[2] = ch.backslash
  /\ \A i \in 3..(Closing - 1) : is_digit(Source[i], 8)
RECURSIVE EscapeValue(_, _, _)
\* the value the digits spell, from acc on; it stops above 0xff
EscapeValue(digits, radix, acc) ==
  IF digits = <<>> \/ acc > 255 THEN acc
  ELSE EscapeValue(Tail(digits), radix, radix * acc + to_digit(Head(digits)))
HexValue == EscapeValue(SubSeq(Source, 4, Closing - 1), 16, 0)
OctalValue == EscapeValue(SubSeq(Source, 3, Closing - 1), 8, 0)

\* C9: a character literal with a \x escape lexes to the Char of the value
\* of its digits when that is at most 0xff, and to the error
\* CharEscapeOutOfRange(Hexadecimal) when it is more; an octal escape of more
\* than 0xff or of more than three digits is an error.
C9_NumericEscapes ==
  Len(items) >= 1 =>
    /\ (HexEscape /\ HexValue <= 255) =>
         /\ items[1].ok /\ items[1].data.t = "Literal"
         /\ items[1].data.v = CharLit(HexValue)
         /\ items[1].location = <<0, Closing>>
    /\ (HexEscape /\ HexValue > 255) =>
         /\ ~items[1].ok /\ items[1].data.t = "CharEscapeOutOfRange"
         /\ items[1].data.v = "Hexadecimal"
    /\ (OctalEscape /\ (OctalValue > 255 \/ Closing - 3 > 3)) => ~items[1].ok

\* C10: a source that is not empty and does not end in a newline yields
\* exactly one NoNewlineAtEOF error and no token after it; the empty source
\* yields no item at all.
C10_NoNewlineAtEOF ==
  Exhausted =>
    /\ (Source # <<>> /\ Source[Len(Source)] # ch.nl) =>
         /\ Cardinality(Errors("NoNewlineAtEOF")) = 1
         /\ \A i \in Errors("NoNewlineAtEOF") : \A j \in (i + 1)..Len(items) : ~items[j].ok
    /\ Source = <<>> => items = <<>>

\* the source is text that holds no literal left open, no comment and no
\* continuation, and then the identifier a after a space
EndsWithToken ==
  /\ Len(Source) >= 3
  /\ Source[Len(Source) - 1] = ch.space /\ Source[Len(Source)] = ch.a
  /\ \A i \in 1..(Len(Source) - 2) :
       Source[i] \notin {ch.dquote, ch.backslash, ch.slash, ch.nl}
  /\ Cardinality({i \in 1..(Len(Source) - 2) : Source[i] = ch.quote}) % 2 = 0
\* the stream holds an error
SawError == \E i \in 1..Len(items) : ~items[i].ok
\* the last item of the stream is the identifier a that ends the source
YieldsLastToken ==
  /\ Len(items) >= 1
  /\ items[Len(items)].ok
  /\ items[Len(items)].data.t = "Id"
  /\ items[Len(items)].data.v = <<ch.a>>
  /\ items[Len(items)].location = <<Len(Source) - 1, Len(Source)>>

\* C11: after a lex error for one lexeme the lexer resumes right after it:
\* a well-formed token that follows the lexeme is still yielded.
C11_ResumesAfterError ==
  (Exhausted /\ EndsWithToken /\ SawError) => YieldsLastToken

RECURSIVE Spliced(_)
\* the text with every backslash-newline pair deleted
Spliced(text) ==
  IF text = <<>> THEN <<>>
  ELSE IF Len(text) >= 2 /\ text[1] = ch.backslash /\ text[2] = ch.nl
  THEN Spliced(SubSeq(text, 3, Len(text)))
  ELSE <<Head(text)>> \o Spliced(Tail(text))
RECURSIVE LexAll(_, _)
\* the stream of a lexer: the items next returns before its first None
LexRest(r, n) ==
  IF r.item.data.t = "None" \/ n = 0 THEN <<>> ELSE <<r.item>> \o LexAll(r.lx, n - 1)
LexAll(lx, n) == LexRest(next(lx), n)
\* two items are both tokens or both errors, with the same data
SameItem(x, y) ==
  /\ x.ok = y.ok
  /\ x.data.t = y.data.t
  /\ x.data.t = "Literal" => x.data.v.tag = y.data.v.tag
  /\ x.data.t \in {"Id", "Literal"} => x.data.v = y.data.v
SameStream(xs, ys) ==
  Len(xs) = Len(ys) /\ \A i \in 1..Len(xs) : SameItem(xs[i], ys[i])

\* C12: the stream of a source is the stream of the same source with every
\* backslash-newline pair deleted.
C12_ContinuationsAnywhere ==
  Exhausted => SameStream(items, LexAll(Lexer(Spliced(Source)), Len(Source)))

\* C26: once next has returned None every later call returns None, and a
\* call that returns an item has consumed at least one byte, so the items
\* are never more than the bytes consumed.
C26_FusedAndFinite ==
  [][/\ nones > 0 => items' = items
     /\ items' # items => lexer'.offset > lexer.offset
     /\ Len(items') <= lexer'.offset]_vars

\* C26 happens: after a stream of items next returned None, and was called
\* again
C26_Witness ==
  /\ pc = "lexing" /\ nones = MaxNones /\ MaxNones > 1
  /\ Len(items) > 1
  /\ lexer.offset = Len(Source)

\* the offset where the line of the offset starts
RECURSIVE LineStart(_)
LineStart(offset) ==
  IF offset = 0 THEN 0
  ELSE IF Source[offset] = ch.nl THEN offset
  ELSE LineStart(offset - 1)

\* the tokens other than '#' that reach into the line the lexer is on
TokensOnLine ==
  {i \in 1..Len(items) :
     /\ items[i].ok /\ items[i].data.t # "Hash"
     /\ items[i].location[2] > LineStart(lexer.offset)}

\* the last call returned a '#' with nothing but whitespace before it on
\* its line
FirstHash ==
  /\ items # <<>> /\ nones = 0
  /\ items[Len(items)].ok /\ items[Len(items)].data.t = "Hash"
  /\ \A j \in (LineStart(items[Len(items)].location[1]) + 1)..items[Len(items)].location[1] :
       is_ascii_whitespace(Source[j])

\* C30: when next returns, seen_line_token tells whether a token other than
\* '#' was emitted from the line the lexer is on; a '#' that is the first
\* token of its line is emitted with seen_line_token false.
C30_SeenLineToken ==
  pc = "lexing" =>
    /\ lexer.seen_line_token <=> TokensOnLine # {}
    /\ FirstHash => ~lexer.seen_line_token

(***************************************************************************)
(* Properties of the driver.                                               *)
(***************************************************************************)
\* C13: each of the two streams compile returns, errors and warnings, is in
\* the order of the locations, and diagnostics of one location are in the
\* order of the passes: lexer, parser, semantic, code generation.
C13_DiagnosticsInOrder ==
  driver.pc \notin {"idle", "main"} =>
    Ordered(driver.result.errs) /\ Ordered(driver.result.warnings)

\* C14: with max_errors set to n, at most n errors are surfaced: neither
\* compile returns more than n, nor does main print more.
C14_ErrorsCapped ==
  (driver.pc \notin {"idle", "main"} /\ driver.max_errors # 0) =>
    /\ Len(driver.result.errs) <= driver.max_errors
    /\ Len(driver.printed) <= driver.max_errors
    /\ driver.ERRORS <= driver.max_errors

(***************************************************************************)
(* Properties of the ErrorHandler.                                         *)
(***************************************************************************)
Recovered(op) == handler.pc = "handler" /\ handler.call.op = op
\* C15: the errors come out of the queue in the order they went in.
\* recover on Ok(v) returns v and leaves both queues as they were; recover on
\* Err((e, fallback)) returns fallback and puts e at the back of the error
\* queue, all errors of the vector in its order for the multi-error variant;
\* recover never changes the warning queue.
C15_QueueAndRecover ==
  /\ handler.pc = "handler" => handler.popped \o handler.h.errors = handler.pushed
  /\ \A op \in {"recover", "recover_many"} :
       Recovered(op) =>
         /\ handler.h.warnings = handler.call.before.warnings
         /\ handler.call.arg.ok =>
              /\ handler.returned = handler.call.arg.v
              /\ handler.h = handler.call.before
         /\ ~handler.call.arg.ok => handler.returned = handler.call.arg.fallback
  /\ (Recovered("recover") /\ ~handler.call.arg.ok) =>
       handler.h.errors = Append(handler.call.before.errors, handler.call.arg.e)
  /\ (Recovered("recover_many") /\ ~handler.call.arg.ok) =>
       handler.h.errors = handler.call.before.errors \o handler.call.arg.e

\* C15 happens: recover put a vector of two different errors behind an
\* error that was waiting, after another error had come out of the queue
C15_Witness ==
  /\ Recovered("recover_many") /\ ~handler.call.arg.ok
  /\ Len(handler.call.arg.e) = 2 /\ handler.call.arg.e[1] # handler.call.arg.e[2]
  /\ handler.call.before.errors # <<>>
  /\ handler.popped # <<>>
  /\ handler.h.warnings # <<>>

(***************************************************************************)
(* Properties of the Scope.                                                *)
(***************************************************************************)
\* C16: after any sequence of new, enter_scope, leave_scope and insert the
\* depth is at least 1, the global frame is never popped, and is_global is
\* true exactly when the depth is 1.
C16_DepthAtLeastOne ==
  scope.pc = "scope" =>
    /\ depth(scope.frames) >= 1
    /\ ~scope.panicked
    /\ is_global(scope.frames) <=> depth(scope.frames) = 1

ScopeCalled(op) == scope.pc = "scope" /\ ~scope.panicked /\ scope.call.op = op
\* the frames that hold name
Holding(frames, name) == {i \in 1..Len(frames) : frames[i][name] # Absent}
\* the innermost of a set of frames that is not empty
Innermost(held) == CHOOSE i \in held : \A j \in held : j <= i

\* C18: get returns the binding of the innermost frame that holds the name,
\* and None when no frame holds it; insert changes only the top frame;
\* leave_scope leaves the frames as the matching enter_scope found them.
C18_LookupAndFrames ==
  /\ ScopeCalled("get") =>
       IF Holding(scope.frames, scope.call.key) = {} THEN scope.returned = Absent
       ELSE scope.returned =
              scope.frames[Innermost(Holding(scope.frames, scope.call.key))][scope.call.key]
  /\ (ScopeCalled("insert") /\ scope.call.before # <<>>) =>
       /\ Len(scope.frames) = Len(scope.call.before)
       /\ \A i \in 1..(Len(scope.frames) - 1) : scope.frames[i] = scope.call.before[i]
       /\ scope.frames[Len(scope.frames)][scope.call.key] # Absent
       /\ \A name \in Names \ {scope.call.key} :
            scope.frames[Len(scope.frames)][name]
              = scope.call.before[Len(scope.frames)][name]
  /\ (ScopeCalled("leave_scope") /\ Len(scope.call.before) > 1) =>
       /\ scope.frames = scope.call.opened
       /\ Len(scope.frames) = Len(scope.call.before) - 1

\* C18 happens: a name bound in the global frame was bound again in a frame
\* opened on top, and get returned the inner binding
C18_Witness ==
  /\ ScopeCalled("get") /\ Len(scope.frames) = 2
  /\ scope.frames[1][scope.call.key] # Absent
  /\ scope.frames[2][scope.call.key] # Absent
  /\ scope.frames[1][scope.call.key] # scope.frames[2][scope.call.key]
  /\ scope.returned = scope.frames[2][scope.call.key]

(***************************************************************************)
(* Properties of the parser of statements.                                 *)
(***************************************************************************)
\* C17: a call of statement, whether it returns Ok or Err, leaves the scope
\* stack at the depth it had when the call was made.
C17_StatementKeepsDepth ==
  (parser.pc = "parser" /\ parser.called = "statement") =>
    depth(parser.p.frames) = depth(parser.entry)

\* the index of the brace that closes the block opened before tokens[i],
\* with n blocks open inside it, or 0 when the block is not closed
RECURSIVE BlockEnd(_, _, _)
BlockEnd(tokens, i, n) ==
  IF i > Len(tokens) THEN 0
  ELSE IF tokens[i] = "{" THEN BlockEnd(tokens, i + 1, n + 1)
  ELSE IF tokens[i] = "}" /\ n = 0 THEN i
  ELSE IF tokens[i] = "}" THEN BlockEnd(tokens, i + 1, n - 1)
  ELSE BlockEnd(tokens, i + 1, n)

\* C24: a statement of a block that fails to parse does not abort the
\* block: compound_statement, called on a block that has its closing brace,
\* returns with the tokens through that brace consumed, the siblings after
\* the bad statement parsed.
C24_BlockSurvivesBadStatement ==
  (/\ parser.pc = "parser" /\ parser.called = "compound_statement"
   /\ BlockEnd(parser.input, 2, 0) > 0) =>
    Len(parser.p.tokens) = Len(parser.input) - BlockEnd(parser.input, 2, 0)

(***************************************************************************)
(* Properties of the layout of structs.                                    *)
(***************************************************************************)
MemberType(i) == layout.ty.members[i].ctype

\* C19: struct_offset gives offset 0 to the first member of a struct whose
\* members are complete; the offset of every later member is at least the
\* offset of the member before it plus that member's size, and a multiple of
\* its own alignment.
C19_OffsetsAligned ==
  layout.pc = "layout" =>
    \A i \in 1..Len(layout.offsets) :
      /\ layout.offsets[i].ok
      /\ i = 1 => layout.offsets[i].offset = 0
      /\ i > 1 =>
           /\ layout.offsets[i - 1].ok
           /\ layout.offsets[i].offset
                >= layout.offsets[i - 1].offset + type_sizeof(MemberType(i - 1)).size
           /\ layout.offsets[i].offset % type_alignof(MemberType(i)).size = 0

\* the struct has been laid out: the offset of its last member and its size
LaidOut ==
  /\ layout.pc = "layout"
  /\ Len(layout.offsets) = Len(layout.ty.members)
  /\ layout.offsets[Len(layout.offsets)].ok
  /\ layout.size # NoSize

\* C20: sizeof of a struct counts the padding before each member: it is at
\* least the offset of the last member plus the size of the last member.
C20_SizeCoversLastMember ==
  LaidOut =>
    /\ layout.size.ok
    /\ layout.size.size
         >= layout.offsets[Len(layout.offsets)].offset
              + type_sizeof(MemberType(Len(layout.offsets))).size

(***************************************************************************)
(* Properties of the conditional stack.                                    *)
(***************************************************************************)
\* the step is an #else
ElseStep == cpp'.last = "else"

\* the #else is met with no #if open, or after the #else of its frame
ElseUnexpected ==
  \/ cpp.nested_ifs = <<>>
  \/ top(cpp.nested_ifs).seen_else

\* the frames under the top frame
Under(nested_ifs) == SubSeq(nested_ifs, 1, Len(nested_ifs) - 1)

\* C25: an #else met with the stack empty or after the #else of the top
\* frame gives UnexpectedElse and leaves the stack as it was; any other
\* #else sets seen-else and makes the frame taking exactly when no earlier
\* branch of the chain was taken; no chain has more than one branch taken.
C25_ElseOnce ==
  /\ [][ElseStep =>
          IF ElseUnexpected
          THEN /\ cpp'.nested_ifs = cpp.nested_ifs
               /\ cpp'.errors = Append(cpp.errors, UnexpectedElse)
          ELSE /\ cpp'.errors = cpp.errors
               /\ Len(cpp'.nested_ifs) = Len(cpp.nested_ifs)
               /\ Under(cpp'.nested_ifs) = Under(cpp.nested_ifs)
               /\ top(cpp'.nested_ifs).seen_else
               /\ top(cpp'.nested_ifs).taking = ~top(cpp.nested_ifs).taken]_vars
  /\ [](cpp.pc = "cpp" =>
          \A i \in 1..Len(cpp.nested_ifs) : cpp.nested_ifs[i].branches <= 1)

\* C25 happens: the #else of a chain that had taken nothing was taken, and
\* a second #else of the chain was refused, the frame under it untouched
C25_Witness ==
  /\ cpp.pc = "cpp" /\ cpp.last = "else"
  /\ Len(cpp.nested_ifs) = MaxIfs
  /\ top(cpp.nested_ifs).seen_else /\ top(cpp.nested_ifs).taking
  /\ cpp.errors = <<UnexpectedElse>>

====
